---- MODULE Spec2Model ----
(***************************************************************************)
(* A model of the Verilog code-intelligence core: the symbol index        *)
(* (src/src/core/symbolIndexer.ts), the search engine (src/cli-client.js, *)
(* class SearchEngine) and the module graph builder                        *)
(* (src/unnamed/part_003, class GraphBuilder).                             *)
(***************************************************************************)
EXTENDS Integers, Sequences, FiniteSets, TLC

VARIABLES
    symbols,    \* SymbolIndexer.symbols: Map id -> Symbol, in insertion order
    nameIndex,  \* SymbolIndexer.nameIndex: Map name -> Set of ids
    pathIndex,  \* SymbolIndexer.pathIndex: Map path -> Set of ids
    disk,       \* the file system the indexer reads
    lastCall,   \* the most recent operation, with its arguments and outcome
    nCalls,     \* how many indexer operations have run
    prev,       \* the updateFile call just before lastCall, when lastCall is an
                \* updateFile of the same path string with no change between
    modules,    \* the ModuleInfo[] argument of buildGraph
    instances,  \* the InstanceInfo[] argument of buildGraph
    graph,      \* GraphBuilder.graph: nodes, edges, reverseEdges, signalFlows
    built,      \* has buildGraph run on modules and instances
    walk,       \* the depth-first search of the graph query in progress
    search,     \* SearchEngine: repoPath, the last search call and its results
    store,      \* SimpleStore: its four maps, and the files under dbPath
    http,       \* HttpServer: the request being handled and its response
    cache       \* SimpleLRUCache: its two maps, its limits and the clock

indexVars == <<symbols, nameIndex, pathIndex, disk, lastCall, nCalls, prev>>

graphVars == <<modules, instances, graph, built, walk>>

searchVars == <<search>>

storeVars == <<store>>

serviceVars == <<http, cache>>

vars == <<symbols, nameIndex, pathIndex, disk, lastCall, nCalls, prev,
          modules, instances, graph, built, walk, search, store, http, cache>>

(***************************************************************************)
(* Generic helpers                                                         *)
(***************************************************************************)
Range(s) == {s[i] : i \in 1..Len(s)}

EmptyMap == [x \in {} |-> {}]

MapHas(f, k) == k \in DOMAIN f

MapPut(f, k, v) == [x \in (DOMAIN f) \cup {k} |-> IF x = k THEN v ELSE f[x]]

MapDel(f, k) == [x \in (DOMAIN f) \ {k} |-> f[x]]

(***************************************************************************)
(* Paths.  A path is the sequence of its components; an absolute path     *)
(* starts with the root component "/".                                    *)
(***************************************************************************)
Cwd == <<"/", "r">>

IsAbsolute(p) == Len(p) > 0 /\ p[1] = "/"

\* path.resolve(base, p)
ResolveFrom(base, p) == IF IsAbsolute(p) THEN p ELSE base \o p

\* path.resolve(p)
Resolve(p) == ResolveFrom(Cwd, p)

\* path.basename(p)
Basename(p) == p[Len(p)]

\* path.dirname(p)
Dirname(p) == IF Len(p) = 1 THEN <<".">> ELSE SubSeq(p, 1, Len(p) - 1)

\* path.extname(name), for the file names of the model
Extname(name) ==
    CASE name = "a.v" -> ".v"
      [] name = "b.v" -> ".v"
      [] name = "c.sv" -> ".sv"
      [] OTHER -> ""

IsPrefix(r, p) == Len(r) <= Len(p) /\ SubSeq(p, 1, Len(r)) = r

(***************************************************************************)
(* File contents.  A text is the sequence of its lines; a line is either  *)
(* blank or two words, optionally followed by an opening parenthesis.     *)
(***************************************************************************)
Blank == [w1 |-> "", w2 |-> "", paren |-> FALSE]

Decl(a, b) == [w1 |-> a, w2 |-> b, paren |-> FALSE]

DeclP(a, b) == [w1 |-> a, w2 |-> b, paren |-> TRUE]

IsBlank(l) == l.w1 = ""

\* "module m"
TextA == <<Decl("module", "m")>>

\* "", "wire m", "module n ("
TextB == <<Blank, Decl("wire", "m"), DeclP("module", "n")>>

Texts == {TextA, TextB}

\* the optional content argument of updateFile: absent, "", or a text
NoArg == [given |-> FALSE, text |-> <<>>]

Arg(t) == [given |-> TRUE, text |-> t]

Args == {NoArg, Arg(<<>>)} \cup {Arg(t) : t \in Texts}

\* JavaScript truthiness of the content argument: undefined and "" are falsy
Truthy(a) == a.given /\ a.text # <<>>

(***************************************************************************)
(* The file system                                                         *)
(***************************************************************************)
FileA == <<"/", "r", "a.v">>

FileB == <<"/", "r", "b.v">>

FileSubA == <<"/", "r", "sub", "a.v">>

\* the files that may exist, in directory-walk order
DiskFiles == <<FileA, FileB, FileSubA>>

Absent == [state |-> "absent", text |-> <<>>]

Unreadable == [state |-> "unreadable", text |-> <<>>]

File(t) == [state |-> "file", text |-> t]

Snapshot(a, b, subA) ==
    [p \in Range(DiskFiles) |->
        IF p = FileA THEN a ELSE IF p = FileB THEN b ELSE subA]

\* the file-system contents the model moves between
Disks == {
    Snapshot(Absent, Absent, Absent),
    Snapshot(File(TextA), File(TextB), Absent),
    Snapshot(File(TextA), Unreadable, File(TextA)),
    Snapshot(File(TextB), Absent, File(TextA)),
    Snapshot(Unreadable, File(TextB), File(TextB)) }

\* the number of indexer operations in one run of the model
MaxCalls == 3

Roots == {<<"/", "r">>, <<"/", "r", "sub">>}

\* the path strings a caller passes to updateFile
UpdatePaths == Range(DiskFiles) \cup {<<"a.v">>}

\* fs.readFileSync(p, "utf8"): the text, or a thrown error
CanRead(d, p) == Resolve(p) \in DOMAIN d /\ d[Resolve(p)].state = "file"

ReadFile(d, p) == d[Resolve(p)].text

(***************************************************************************)
(* The symbol table: symbols is the insertion-ordered id -> Symbol map,   *)
(* held as the sequence of its values.                                    *)
(***************************************************************************)
EmptyTable == [symbols |-> <<>>, nameIndex |-> EmptyMap, pathIndex |-> EmptyMap]

Table == [symbols |-> symbols, nameIndex |-> nameIndex, pathIndex |-> pathIndex]

SymIds(syms) == {syms[i].id : i \in 1..Len(syms)}

\* Map.get(id), for an id the map holds
SymGet(syms, id) == syms[CHOOSE i \in 1..Len(syms) : syms[i].id = id]

\* a set that adds an entry even when the key is there
SymSetAppend(syms, sym) == Append(syms, sym)

\* Map.set(sym.id, sym): an existing key keeps its place, a new one is appended
SymSet(syms, sym) ==
    IF sym.id \in SymIds(syms)
    THEN [i \in 1..Len(syms) |-> IF syms[i].id = sym.id THEN sym ELSE syms[i]]
    ELSE Append(syms, sym)

\* Map.delete(id)
SymDelete(syms, id) ==
    LET Keep(s) == s.id # id IN SelectSeq(syms, Keep)

generateSymbolId(filePath, name, line) == <<Basename(filePath), name, line>>

\* the hash is a function of the string `${path}:${name}:${line}`; it is kept
\* as that triple
computeHash(filePath, name, line) == <<filePath, name, line>>

addSymbol(t, symbol) ==
    LET nameSet == IF MapHas(t.nameIndex, symbol.name)
                   THEN t.nameIndex[symbol.name] ELSE {}
        pathSet == IF MapHas(t.pathIndex, symbol.path)
                   THEN t.pathIndex[symbol.path] ELSE {}
    IN [symbols   |-> SymSet(t.symbols, symbol),
        nameIndex |-> MapPut(t.nameIndex, symbol.name, nameSet \cup {symbol.id}),
        pathIndex |-> MapPut(t.pathIndex, symbol.path, pathSet \cup {symbol.id})]

\* IndexDrop that deletes the key without looking at what is left in its set
IndexDropKey(index, k, id) ==
    IF ~MapHas(index, k) THEN index ELSE MapDel(index, k)

\* delete id from the set stored under key k, dropping the key when the set
\* becomes empty; a missing key is left alone
IndexDrop(index, k, id) ==
    IF ~MapHas(index, k) THEN index
    ELSE IF index[k] \ {id} = {} THEN MapDel(index, k)
    ELSE MapPut(index, k, index[k] \ {id})

removeSymbol(t, symbolId) ==
    IF symbolId \notin SymIds(t.symbols) THEN t
    ELSE LET symbol == SymGet(t.symbols, symbolId)
         IN [symbols   |-> SymDelete(t.symbols, symbolId),
             nameIndex |-> IndexDrop(t.nameIndex, symbol.name, symbolId),
             pathIndex |-> IndexDrop(t.pathIndex, symbol.path, symbolId)]

\* for (const id of existingIds) this.removeSymbol(id)
RECURSIVE RemoveAll(_, _)
RemoveAll(t, ids) ==
    IF ids = {} THEN t
    ELSE LET id == CHOOSE x \in ids : TRUE
         IN RemoveAll(removeSymbol(t, id), ids \ {id})

(***************************************************************************)
(* indexSingleFile: the regular-expression extraction                      *)
(***************************************************************************)
\* the six patterns, in the order the code tries them
Patterns == <<
    [kind |-> "module",   kws |-> {"module"}],
    [kind |-> "function", kws |-> {"function"}],
    [kind |-> "task",     kws |-> {"task"}],
    [kind |-> "port",     kws |-> {"input", "output", "inout"}],
    [kind |-> "signal",   kws |-> {"wire", "reg", "logic"}],
    [kind |-> "instance", kws |-> {}] >>

\* does the pattern match on this line
LineMatches(pat, l) ==
    /\ ~IsBlank(l)
    /\ IF pat.kind = "instance" THEN l.paren ELSE l.w1 \in pat.kws

\* match[1]: the declared name, or for an instance the first word
MatchName(pat, l) == IF pat.kind = "instance" THEN l.w1 ELSE l.w2

\* match.index: every pattern starts with ^\s*, and \s also matches line
\* breaks, so a match begins at the first of the blank lines before it
RECURSIVE MatchStart(_, _)
MatchStart(content, i) ==
    IF i > 1 /\ IsBlank(content[i - 1]) THEN MatchStart(content, i - 1) ELSE i

\* content.substring(0, match.index).split("\n").length - 1
LineNum(content, i) == MatchStart(content, i) - 1

MakeSymbol(filePath, name, kind, lineNum) ==
    [id        |-> generateSymbolId(filePath, name, lineNum),
     repo      |-> Dirname(filePath),
     path      |-> Resolve(filePath),
     name      |-> name,
     kind      |-> kind,
     startLine |-> lineNum,
     endLine   |-> lineNum,
     nodeType  |-> kind,
     hash      |-> computeHash(filePath, name, lineNum)]

\* the symbols one pattern yields from line i on, in match order
RECURSIVE PatternSymbols(_, _, _, _)
PatternSymbols(filePath, content, pat, i) ==
    IF i > Len(content) THEN <<>>
    ELSE (IF LineMatches(pat, content[i])
          THEN <<MakeSymbol(filePath, MatchName(pat, content[i]), pat.kind,
                            LineNum(content, i))>>
          ELSE <<>>) \o PatternSymbols(filePath, content, pat, i + 1)

\* all symbols of a file, in the order addSymbol receives them
RECURSIVE ExtractFrom(_, _, _)
ExtractFrom(filePath, content, k) ==
    IF k > Len(Patterns) THEN <<>>
    ELSE PatternSymbols(filePath, content, Patterns[k], 1)
         \o ExtractFrom(filePath, content, k + 1)

Extract(filePath, content) == ExtractFrom(filePath, content, 1)

RECURSIVE AddAll(_, _)
AddAll(t, syms) ==
    IF syms = <<>> THEN t ELSE AddAll(addSymbol(t, Head(syms)), Tail(syms))

indexSingleFile(t, filePath, content) == AddAll(t, Extract(filePath, content))

(***************************************************************************)
(* updateFile                                                              *)
(***************************************************************************)
\* the ids removed first: this.pathIndex.get(filePath) || new Set()
existingIds(t, filePath) ==
    IF MapHas(t.pathIndex, filePath) THEN t.pathIndex[filePath] ELSE {}

\* content || fs.readFileSync(filePath): does the read throw
updateFileThrows(d, filePath, arg) == ~Truthy(arg) /\ ~CanRead(d, filePath)

fileContent(d, filePath, arg) ==
    IF Truthy(arg) THEN arg.text ELSE ReadFile(d, filePath)

\* the table after updateFile(filePath, content)
updateFile(t, d, filePath, arg) ==
    LET removed == RemoveAll(t, existingIds(t, filePath))
    IN IF updateFileThrows(d, filePath, arg) THEN removed
       ELSE indexSingleFile(removed, filePath, fileContent(d, filePath, arg))

(***************************************************************************)
(* buildIndex: ctags, or the fallback walk                                 *)
(***************************************************************************)
Tag(name, kind, lineStr, fileParts) ==
    [name |-> name, kind |-> kind, lineStr |-> lineStr, fileParts |-> fileParts]

\* what `ctags -x` may print, already split into lines and fields; a line
\* with no file field has fewer than four fields
CtagsOutputs == {
    <<Tag("m", "m", 1, <<"a.v">>)>>,
    <<Tag("n", "port", 2, <<"b.v", "input", "n">>), Tag("x", "m", 1, <<>>)>> }

\* fileParts.join(" ")
JoinSpace(fileParts) ==
    CASE fileParts = <<"a.v">> -> "a.v"
      [] fileParts = <<"b.v", "input", "n">> -> "b.v input n"
      [] OTHER -> ""

mapCtagsKind(kind) ==
    CASE kind = "m" -> "module"
      [] kind = "f" -> "function"
      [] kind = "t" -> "task"
      [] kind = "p" -> "port"
      [] kind = "r" -> "register"
      [] kind = "c" -> "constant"
      [] OTHER -> kind

CtagsSymbol(tag, repoPath) ==
    LET lineNum == tag.lineStr - 1
        fullPath == ResolveFrom(repoPath, <<JoinSpace(tag.fileParts)>>)
    IN [id        |-> generateSymbolId(fullPath, tag.name, lineNum),
        repo      |-> repoPath,
        path      |-> fullPath,
        name      |-> tag.name,
        kind      |-> mapCtagsKind(tag.kind),
        startLine |-> lineNum,
        endLine   |-> lineNum,
        nodeType  |-> tag.kind,
        hash      |-> computeHash(fullPath, tag.name, lineNum)]

RECURSIVE parseCtagsOutput(_, _, _)
parseCtagsOutput(t, output, repoPath) ==
    IF output = <<>> THEN t
    ELSE LET tag == Head(output)
             next == IF Len(tag.fileParts) < 1 THEN t
                     ELSE addSymbol(t, CtagsSymbol(tag, repoPath))
         IN parseCtagsOutput(next, Tail(output), repoPath)

IgnoredDirs == {"node_modules", ".git", "build", "dist"}

VerilogExtensions == {".v", ".sv", ".svh", ".vh"}

\* would the walk from repoPath reach file p
Walked(d, repoPath, p) ==
    /\ d[p].state # "absent"
    /\ IsPrefix(repoPath, p) /\ Len(p) > Len(repoPath)
    /\ \A i \in (Len(repoPath) + 1)..(Len(p) - 1) : p[i] \notin IgnoredDirs
    /\ Extname(Basename(p)) \in VerilogExtensions

findVerilogFiles(d, repoPath) ==
    LET Found(p) == Walked(d, repoPath, p) IN SelectSeq(DiskFiles, Found)

\* each file is read and indexed inside its own try/catch
RECURSIVE IndexFiles(_, _, _)
IndexFiles(t, d, files) ==
    IF files = <<>> THEN t
    ELSE LET f == Head(files)
             next == IF CanRead(d, f) THEN indexSingleFile(t, f, ReadFile(d, f))
                     ELSE t
         IN IndexFiles(next, d, Tail(files))

fallbackIndexing(t, d, repoPath) == IndexFiles(t, d, findVerilogFiles(d, repoPath))

\* the table after buildIndex(repoPath); ctagsOk says whether `which ctags`
\* and the ctags run succeeded, output is what it printed
buildIndex(t, d, repoPath, ctagsOk, output) ==
    IF ctagsOk THEN parseCtagsOutput(t, output, repoPath)
    ELSE fallbackIndexing(t, d, repoPath)

\* the value buildIndex resolves to: the method has no return statement, so
\* the caller gets undefined, here the empty sequence
buildIndexValue(d, repoPath, ctagsOk) == <<>>

(***************************************************************************)
(* Queries of the symbol table                                             *)
(***************************************************************************)
listSymbols(t) == t.symbols

\* symbols.get(id): the symbol as a sequence of one, undefined as the empty one
getSymbol(t, id) ==
    IF id \in SymIds(t.symbols) THEN <<SymGet(t.symbols, id)>> ELSE <<>>

findByName(t, name) ==
    IF MapHas(t.nameIndex, name)
    THEN {SymGet(t.symbols, id) : id \in t.nameIndex[name] \cap SymIds(t.symbols)}
    ELSE {}

getSymbolsInFile(t, filePath) ==
    IF MapHas(t.pathIndex, filePath)
    THEN {SymGet(t.symbols, id) : id \in t.pathIndex[filePath] \cap SymIds(t.symbols)}
    ELSE {}

getAllFiles(t) == DOMAIN t.pathIndex

(***************************************************************************)
(* The indexer as a state machine                                          *)
(***************************************************************************)
NoCall == [op |-> "none", path |-> <<>>, arg |-> NoArg, ctagsOk |-> FALSE,
           output |-> <<>>, threw |-> FALSE]

NoPrev == [valid |-> FALSE, arg |-> NoArg, threw |-> FALSE]

InitIndex ==
    /\ symbols = <<>>
    /\ nameIndex = EmptyMap
    /\ pathIndex = EmptyMap
    /\ disk \in Disks
    /\ lastCall = NoCall
    /\ nCalls = 0
    /\ prev = NoPrev

SetTable(t) ==
    /\ symbols' = t.symbols
    /\ nameIndex' = t.nameIndex
    /\ pathIndex' = t.pathIndex

UpdateFile(p, arg) ==
    /\ nCalls < MaxCalls
    /\ nCalls' = nCalls + 1
    /\ SetTable(updateFile(Table, disk, p, arg))
    /\ lastCall' = [op |-> "updateFile", path |-> p, arg |-> arg, ctagsOk |-> FALSE,
                    output |-> <<>>, threw |-> updateFileThrows(disk, p, arg)]
    /\ prev' = IF lastCall.op = "updateFile" /\ lastCall.path = p
               THEN [valid |-> TRUE, arg |-> lastCall.arg, threw |-> lastCall.threw]
               ELSE NoPrev
    /\ UNCHANGED disk
    /\ UNCHANGED <<graphVars, searchVars, storeVars, serviceVars>>

BuildIndex(r, ctagsOk, output) ==
    /\ nCalls < MaxCalls
    /\ nCalls' = nCalls + 1
    /\ SetTable(buildIndex(Table, disk, r, ctagsOk, output))
    /\ lastCall' = [op |-> "buildIndex", path |-> r, arg |-> NoArg,
                    ctagsOk |-> ctagsOk, output |-> output, threw |-> FALSE]
    /\ prev' = NoPrev
    /\ UNCHANGED disk
    /\ UNCHANGED <<graphVars, searchVars, storeVars, serviceVars>>

\* between two operations the environment creates, rewrites, deletes or
\* locks files
ChangeDisk(d) ==
    /\ disk # d
    /\ disk' = d
    /\ lastCall' = [NoCall EXCEPT !.op = "changeDisk"]
    /\ prev' = NoPrev
    /\ UNCHANGED <<symbols, nameIndex, pathIndex, nCalls>>
    /\ UNCHANGED <<graphVars, searchVars, storeVars, serviceVars>>

NextIndex ==
    \/ \E p \in UpdatePaths, arg \in Args : UpdateFile(p, arg)
    \/ \E r \in Roots, out \in CtagsOutputs : BuildIndex(r, TRUE, out)
    \/ \E r \in Roots : BuildIndex(r, FALSE, <<>>)
    \/ \E d \in Disks : ChangeDisk(d)

(***************************************************************************)
(* The module graph (class GraphBuilder).  nodes is the insertion-ordered *)
(* name -> ModuleNode map, held as the sequence of its values; edges and  *)
(* reverseEdges map a name to its insertion-ordered set, held as a        *)
(* sequence without repetitions.                                          *)
(***************************************************************************)
EmptyGraph == [nodes |-> <<>>, edges |-> EmptyMap, reverseEdges |-> EmptyMap,
               signalFlows |-> <<>>]

NodeNames(g) == {g.nodes[i].name : i \in 1..Len(g.nodes)}

\* nodes.get(name), for a name the map holds
NodeGet(g, name) == g.nodes[CHOOSE i \in 1..Len(g.nodes) : g.nodes[i].name = name]

\* nodes.set(node.name, node)
NodeSet(nodes, node) ==
    IF \E i \in 1..Len(nodes) : nodes[i].name = node.name
    THEN [i \in 1..Len(nodes) |-> IF nodes[i].name = node.name THEN node ELSE nodes[i]]
    ELSE Append(nodes, node)

\* Set.add
SetAdd(seq, x) == IF x \in Range(seq) THEN seq ELSE Append(seq, x)

\* the Set stored under a key, empty when the key is missing
EdgeSet(m, k) == IF MapHas(m, k) THEN m[k] ELSE <<>>

\* addEdge whose reverse entry is replaced instead of extended
addEdgeOverwrite(g, from, to) ==
    [g EXCEPT !.edges = MapPut(g.edges, from, SetAdd(EdgeSet(g.edges, from), to)),
              !.reverseEdges = MapPut(g.reverseEdges, to, <<from>>)]

addEdge(g, from, to) ==
    [g EXCEPT !.edges = MapPut(g.edges, from, SetAdd(EdgeSet(g.edges, from), to)),
              !.reverseEdges =
                  MapPut(g.reverseEdges, to, SetAdd(EdgeSet(g.reverseEdges, to), from))]

\* a find that falls back on the first module
findModuleByFileOrFirst(file, mods) ==
    LET hits == {i \in 1..Len(mods) : mods[i].filePath = file}
    IN IF mods = <<>> THEN <<>>
       ELSE IF hits = {} THEN <<mods[1]>>
       ELSE <<mods[CHOOSE i \in hits : \A j \in hits : i <= j]>>

\* a find that returns the last match
findModuleByFileLast(file, mods) ==
    LET hits == {i \in 1..Len(mods) : mods[i].filePath = file}
    IN IF hits = {} THEN <<>>
       ELSE <<mods[CHOOSE i \in hits : \A j \in hits : i >= j]>>

\* modules.find((m) => m.filePath === file) || null: the first match, as a
\* sequence of at most one module
findModuleByFile(file, mods) ==
    LET hits == {i \in 1..Len(mods) : mods[i].filePath = file}
    IN IF hits = {} THEN <<>>
       ELSE <<mods[CHOOSE i \in hits : \A j \in hits : i <= j]>>

RECURSIVE AddNodes(_, _)
AddNodes(g, mods) ==
    IF mods = <<>> THEN g
    ELSE LET m == Head(mods)
             node == [id |-> m.name, name |-> m.name, file |-> m.filePath,
                      ports |-> m.ports, parameters |-> <<>>, instances |-> <<>>]
         IN AddNodes([g EXCEPT !.nodes = NodeSet(g.nodes, node)], Tail(mods))

\* parentNode.instances.push(instance)
PushInstance(g, name, inst) ==
    [g EXCEPT !.nodes =
        [i \in 1..Len(g.nodes) |->
            IF g.nodes[i].name = name
            THEN [g.nodes[i] EXCEPT !.instances = Append(@, inst)]
            ELSE g.nodes[i]]]

RECURSIVE AddInstances(_, _, _)
AddInstances(g, insts, mods) ==
    IF insts = <<>> THEN g
    ELSE LET inst == Head(insts)
             parent == findModuleByFile(inst.file, mods)
             next == IF parent = <<>> THEN g
                     ELSE addEdge(PushInstance(g, parent[1].name, inst),
                                  parent[1].name, inst.moduleType)
         IN AddInstances(next, Tail(insts), mods)

\* traceSignalFlow that takes every connection as an input of the child
traceSignalFlowInward(g, parentModule, inst, conn) ==
    IF inst.moduleType \notin NodeNames(g) THEN <<>>
    ELSE IF \A k \in 1..Len(NodeGet(g, inst.moduleType).ports) :
                NodeGet(g, inst.moduleType).ports[k].name # conn.portName
    THEN <<>>
    ELSE <<[from   |-> [module |-> parentModule, port |-> conn.signalName],
            to     |-> [module |-> inst.moduleType, port |-> conn.portName],
            signal |-> conn.signalName,
            path   |-> <<parentModule, inst.moduleType>>]>>

\* the flow of one connection, as a sequence of at most one flow
traceSignalFlow(g, parentModule, inst, conn) ==
    IF inst.moduleType \notin NodeNames(g) THEN <<>>
    ELSE IF \A k \in 1..Len(NodeGet(g, inst.moduleType).ports) :
                NodeGet(g, inst.moduleType).ports[k].name # conn.portName
    THEN <<>>
    ELSE LET inward == conn.direction = "input"
         IN <<[from   |-> [module |-> IF inward THEN parentModule ELSE inst.moduleType,
                           port   |-> IF inward THEN conn.signalName ELSE conn.portName],
               to     |-> [module |-> IF inward THEN inst.moduleType ELSE parentModule,
                           port   |-> IF inward THEN conn.portName ELSE conn.signalName],
               signal |-> conn.signalName,
               path   |-> <<parentModule, inst.moduleType>>]>>

RECURSIVE ConnectionFlows(_, _, _, _)
ConnectionFlows(g, parentModule, inst, k) ==
    IF k > Len(inst.connections) THEN <<>>
    ELSE traceSignalFlow(g, parentModule, inst, inst.connections[k])
         \o ConnectionFlows(g, parentModule, inst, k + 1)

RECURSIVE InstanceFlows(_, _, _)
InstanceFlows(g, node, j) ==
    IF j > Len(node.instances) THEN <<>>
    ELSE ConnectionFlows(g, node.name, node.instances[j], 1)
         \o InstanceFlows(g, node, j + 1)

RECURSIVE NodeFlows(_, _)
NodeFlows(g, i) ==
    IF i > Len(g.nodes) THEN <<>>
    ELSE InstanceFlows(g, g.nodes[i], 1) \o NodeFlows(g, i + 1)

buildSignalFlows(g) == [g EXCEPT !.signalFlows = g.signalFlows \o NodeFlows(g, 1)]

\* the graph buildGraph(mods, insts) leaves in this.graph
buildGraph(mods, insts) ==
    buildSignalFlows(AddInstances(AddNodes(EmptyGraph, mods), insts, mods))

\* a build that leaves this.graph as the last call left it
clearGraphKeep(g) == g

\* Clear previous graph: this.graph becomes four new empty collections
clearGraph(g) == EmptyGraph

\* buildGraph(mods, insts) called on a builder whose graph is g
rebuildGraph(g, mods, insts) ==
    buildSignalFlows(AddInstances(AddNodes(clearGraph(g), mods), insts, mods))

(***************************************************************************)
(* Graph queries without recursion                                         *)
(***************************************************************************)
\* getTopLevelModules that looks at the forward edges
getTopLevelModulesForward(g) ==
    LET IsTop(node) == Len(EdgeSet(g.edges, node.name)) = 0
        kept == SelectSeq(g.nodes, IsTop)
    IN [i \in 1..Len(kept) |-> kept[i].name]

getTopLevelModules(g) ==
    LET IsTop(node) == Len(EdgeSet(g.reverseEdges, node.name)) = 0
        kept == SelectSeq(g.nodes, IsTop)
    IN [i \in 1..Len(kept) |-> kept[i].name]

\* a leaf test that looks at the reverse edges
getLeafModulesReverse(g) ==
    LET Leaf(node) == Len(EdgeSet(g.reverseEdges, node.name)) = 0
        kept == SelectSeq(g.nodes, Leaf)
    IN [i \in 1..Len(kept) |-> kept[i].name]

getLeafModules(g) ==
    LET Leaf(node) == Len(EdgeSet(g.edges, node.name)) = 0
        kept == SelectSeq(g.nodes, Leaf)
    IN [i \in 1..Len(kept) |-> kept[i].name]

RECURSIVE AffectedModules(_)
AffectedModules(flows) ==
    IF flows = <<>> THEN <<>>
    ELSE LET rest == AffectedModules(SubSeq(flows, 1, Len(flows) - 1))
             f == flows[Len(flows)]
         IN SetAdd(SetAdd(rest, f.from.module), f.to.module)

getSignalImpactAnalysis(g, signalName) ==
    LET Hit(f) == f.signal = signalName
        hits == SelectSeq(g.signalFlows, Hit)
    IN [sources         |-> [i \in 1..Len(hits) |-> hits[i].from],
        sinks           |-> [i \in 1..Len(hits) |-> hits[i].to],
        affectedModules |-> AffectedModules(hits)]

(***************************************************************************)
(* The recursive graph queries, run one call or one loop turn at a time.  *)
(* walk.stack holds the frames of the recursion: the node of each active  *)
(* dfs call, the children its for-loop has still to visit, and its local  *)
(* maxDepth.  walk.mode says whether a call is about to be entered        *)
(* ("call", of walk.arg) or has just returned into its caller ("resume",  *)
(* with walk.ret the returned value, 1 for true and 0 for false).         *)
(***************************************************************************)
\* the deepest recursion the engine's call stack takes
MaxStack == 6

NoMetrics == [instanceCount |-> 0, portCount |-> 0, connectionCount |-> 0,
              hierarchyDepth |-> 0]

NoResult == [found |-> FALSE, path |-> <<>>, metrics |-> NoMetrics]

IdleWalk == [pc |-> "idle", query |-> "none", from |-> "", to |-> "",
             mode |-> "resume", arg |-> "", ret |-> 0, stack |-> <<>>,
             visited |-> {}, path |-> <<>>, longest |-> <<>>, roots |-> <<>>,
             result |-> NoResult]

Frame(node, kids) == [node |-> node, kids |-> kids, maxDepth |-> 0]

Top(w) == w.stack[Len(w.stack)]

Pop(w) == SubSeq(w.stack, 1, Len(w.stack) - 1)

ButLast(seq) == SubSeq(seq, 1, Len(seq) - 1)

Max(a, b) == IF a >= b THEN a ELSE b

\* enter a call that runs a for-loop over kids, or overflow the call stack
PushFrame(w, node, kids) ==
    IF Len(w.stack) >= MaxStack THEN [w EXCEPT !.pc = "overflow"]
    ELSE [w EXCEPT !.stack = Append(w.stack, Frame(node, kids)),
                   !.mode = "resume", !.ret = 0]

\* the loop of the top frame calls dfs on its next child
CallNextChild(w) ==
    [w EXCEPT !.stack[Len(w.stack)].kids = Tail(Top(w).kids),
              !.mode = "call", !.arg = Head(Top(w).kids)]

Running(q) == walk.pc = "running" /\ walk.query = q

CanStart == walk.pc \in {"idle", "done"}

(* findModulePath *)
StartFindModulePath(from, to) ==
    /\ CanStart
    /\ walk' = [IdleWalk EXCEPT !.pc = "running", !.query = "findModulePath",
                                !.from = from, !.to = to,
                                !.mode = "call", !.arg = from]

\* a visited test that never finds the module
findPathVisitedNever(w, current) == FALSE

\* visited.has(current)
findPathVisited(w, current) == current \in w.visited

findPathCall(g, w) ==
    LET current == w.arg
    IN IF current = w.to
       THEN [w EXCEPT !.path = Append(w.path, current), !.mode = "resume", !.ret = 1]
       ELSE IF findPathVisited(w, current)
       THEN [w EXCEPT !.mode = "resume", !.ret = 0]
       ELSE PushFrame([w EXCEPT !.visited = w.visited \cup {current},
                                !.path = Append(w.path, current)],
                      current, EdgeSet(g.edges, current))

\* a return into the caller that leaves the failed module on the path
findPathResumeNoPop(w) ==
    IF w.stack = <<>>
    THEN [w EXCEPT !.pc = "done",
                   !.result = IF w.ret = 1
                              THEN [NoResult EXCEPT !.found = TRUE, !.path = w.path]
                              ELSE NoResult]
    ELSE IF w.ret = 1 THEN [w EXCEPT !.stack = Pop(w)]
    ELSE IF Top(w).kids # <<>> THEN CallNextChild(w)
    ELSE [w EXCEPT !.stack = Pop(w), !.ret = 0]

findPathResume(w) ==
    IF w.stack = <<>>
    THEN [w EXCEPT !.pc = "done",
                   !.result = IF w.ret = 1
                              THEN [NoResult EXCEPT !.found = TRUE, !.path = w.path]
                              ELSE NoResult]
    ELSE IF w.ret = 1 THEN [w EXCEPT !.stack = Pop(w)]
    ELSE IF Top(w).kids # <<>> THEN CallNextChild(w)
    ELSE [w EXCEPT !.path = ButLast(w.path), !.stack = Pop(w), !.ret = 0]

(* getCriticalPath *)
\* a visited test that never finds the module
criticalVisitedNever(w, module) == FALSE

\* visited.has(module)
criticalVisited(w, module) == module \in w.visited

\* a call that keeps the path found last among the longest
criticalCallKeepLast(g, w) ==
    LET module == w.arg
        entered == [w EXCEPT !.visited = w.visited \cup {module},
                             !.path = Append(w.path, module)]
        children == EdgeSet(g.edges, module)
    IN IF criticalVisited(w, module) THEN [w EXCEPT !.mode = "resume"]
       ELSE IF children = <<>>
       THEN [w EXCEPT !.longest = IF Len(entered.path) >= Len(w.longest)
                                  THEN entered.path ELSE w.longest,
                      !.visited = entered.visited \ {module},
                      !.mode = "resume"]
       ELSE PushFrame(entered, module, children)

criticalCall(g, w) ==
    LET module == w.arg
        entered == [w EXCEPT !.visited = w.visited \cup {module},
                             !.path = Append(w.path, module)]
        children == EdgeSet(g.edges, module)
    IN IF criticalVisited(w, module) THEN [w EXCEPT !.mode = "resume"]
       ELSE IF children = <<>>
       THEN [w EXCEPT !.longest = IF Len(entered.path) > Len(w.longest)
                                  THEN entered.path ELSE w.longest,
                      !.visited = entered.visited \ {module},
                      !.mode = "resume"]
       ELSE PushFrame(entered, module, children)

criticalResume(w) ==
    IF w.stack = <<>>
    THEN IF w.roots # <<>>
         THEN [w EXCEPT !.roots = Tail(w.roots), !.path = <<>>,
                        !.mode = "call", !.arg = Head(w.roots)]
         ELSE [w EXCEPT !.pc = "done",
                        !.result = [NoResult EXCEPT !.path = w.longest]]
    ELSE IF Top(w).kids # <<>> THEN CallNextChild(w)
    ELSE [w EXCEPT !.path = ButLast(w.path),
                   !.visited = w.visited \ {Top(w).node},
                   !.stack = Pop(w)]

(* getModuleComplexity and calculateHierarchyDepth *)
RECURSIVE SumConnections(_)
SumConnections(insts) ==
    IF insts = <<>> THEN 0
    ELSE Len(Head(insts).connections) + SumConnections(Tail(insts))

Metrics(g, moduleName, depth) ==
    LET node == NodeGet(g, moduleName)
    IN [instanceCount   |-> Len(node.instances),
        portCount       |-> Len(node.ports),
        connectionCount |-> SumConnections(node.instances),
        hierarchyDepth  |-> depth]

\* a visited test that never finds the module
depthVisitedNever(w, module) == FALSE

\* visited.has(module)
depthVisited(w, module) == module \in w.visited

depthCall(g, w) ==
    LET module == w.arg
        children == EdgeSet(g.edges, module)
    IN IF depthVisited(w, module) THEN [w EXCEPT !.mode = "resume", !.ret = 0]
       ELSE IF children = <<>>
       THEN [w EXCEPT !.visited = w.visited \cup {module},
                      !.mode = "resume", !.ret = 1]
       ELSE PushFrame([w EXCEPT !.visited = w.visited \cup {module}],
                      module, children)

depthResume(g, w) ==
    IF w.stack = <<>>
    THEN [w EXCEPT !.pc = "done",
                   !.result = [NoResult EXCEPT !.metrics = Metrics(g, w.from, w.ret)]]
    ELSE LET maxDepth == Max(Top(w).maxDepth, w.ret)
             merged == [w EXCEPT !.stack[Len(w.stack)].maxDepth = maxDepth]
         IN IF Top(w).kids # <<>> THEN CallNextChild(merged)
            ELSE [w EXCEPT !.stack = Pop(w), !.ret = maxDepth + 1]

(***************************************************************************)
(* The graph builder as a state machine                                    *)
(***************************************************************************)
\* a query that keeps a note of its walk in the graph
GraphFrameWrites ==
    /\ UNCHANGED <<modules, instances, built>>
    /\ graph' = [graph EXCEPT !.reverseEdges = EmptyMap]

\* the queries assign nothing of the builder's lists and graph
GraphFrame == UNCHANGED <<modules, instances, graph, built>>

BuildGraph ==
    /\ ~built
    /\ walk.pc # "running"
    /\ graph' = buildGraph(modules, instances)
    /\ built' = TRUE
    /\ UNCHANGED <<modules, instances, walk>>
    /\ UNCHANGED <<indexVars, searchVars, storeVars, serviceVars>>

\* buildGraph(mods, insts) on a builder that may have built before
Rebuild(mods, insts) ==
    /\ walk.pc # "running"
    /\ modules' = mods
    /\ instances' = insts
    /\ graph' = rebuildGraph(graph, mods, insts)
    /\ built' = TRUE
    /\ UNCHANGED walk
    /\ UNCHANGED <<indexVars, searchVars, storeVars, serviceVars>>

FindModulePathStart(from, to) ==
    /\ StartFindModulePath(from, to)
    /\ GraphFrame /\ UNCHANGED <<indexVars, searchVars, storeVars, serviceVars>>

FindModulePathCall ==
    /\ Running("findModulePath") /\ walk.mode = "call"
    /\ walk' = findPathCall(graph, walk)
    /\ GraphFrame /\ UNCHANGED <<indexVars, searchVars, storeVars, serviceVars>>

FindModulePathResume ==
    /\ Running("findModulePath") /\ walk.mode = "resume"
    /\ walk' = findPathResume(walk)
    /\ GraphFrame /\ UNCHANGED <<indexVars, searchVars, storeVars, serviceVars>>

GetCriticalPathStart ==
    /\ CanStart
    /\ walk' = [IdleWalk EXCEPT !.pc = "running", !.query = "getCriticalPath",
                                !.roots = getTopLevelModules(graph)]
    /\ GraphFrame /\ UNCHANGED <<indexVars, searchVars, storeVars, serviceVars>>

GetCriticalPathCall ==
    /\ Running("getCriticalPath") /\ walk.mode = "call"
    /\ walk' = criticalCall(graph, walk)
    /\ GraphFrame /\ UNCHANGED <<indexVars, searchVars, storeVars, serviceVars>>

GetCriticalPathResume ==
    /\ Running("getCriticalPath") /\ walk.mode = "resume"
    /\ walk' = criticalResume(walk)
    /\ GraphFrame /\ UNCHANGED <<indexVars, searchVars, storeVars, serviceVars>>

GetModuleComplexityStart(moduleName) ==
    /\ CanStart
    /\ walk' = IF moduleName \notin NodeNames(graph)
               THEN [IdleWalk EXCEPT !.pc = "done", !.query = "getModuleComplexity",
                                     !.from = moduleName]
               ELSE [IdleWalk EXCEPT !.pc = "running",
                                     !.query = "getModuleComplexity",
                                     !.from = moduleName,
                                     !.mode = "call", !.arg = moduleName]
    /\ GraphFrame /\ UNCHANGED <<indexVars, searchVars, storeVars, serviceVars>>

GetModuleComplexityCall ==
    /\ Running("getModuleComplexity") /\ walk.mode = "call"
    /\ walk' = depthCall(graph, walk)
    /\ GraphFrame /\ UNCHANGED <<indexVars, searchVars, storeVars, serviceVars>>

GetModuleComplexityResume ==
    /\ Running("getModuleComplexity") /\ walk.mode = "resume"
    /\ walk' = depthResume(graph, walk)
    /\ GraphFrame /\ UNCHANGED <<indexVars, searchVars, storeVars, serviceVars>>

\* one step of the query that is running
WalkStep ==
    \/ FindModulePathCall
    \/ FindModulePathResume
    \/ GetCriticalPathCall
    \/ GetCriticalPathResume
    \/ GetModuleComplexityCall
    \/ GetModuleComplexityResume

(* inputs of buildGraph *)
Port(name, direction) == [name |-> name, direction |-> direction, type |-> "wire"]

Module(name, filePath, ports) ==
    [name |-> name, filePath |-> filePath, startLine |-> 0, endLine |-> 0,
     ports |-> ports]

Conn(portName, signalName, direction) ==
    [portName |-> portName, signalName |-> signalName, direction |-> direction]

Instance(name, moduleType, file, connections) ==
    [name |-> name, moduleType |-> moduleType, connections |-> connections,
     file |-> file, line |-> 1]

\* sequences over S of at most n elements
RECURSIVE SeqsUpTo(_, _)
SeqsUpTo(S, n) ==
    IF n = 0 THEN {<<>>}
    ELSE LET shorter == SeqsUpTo(S, n - 1)
         IN shorter \cup {Append(q, x) : q \in {r \in shorter : Len(r) = n - 1}, x \in S}

(***************************************************************************)
(* The search engine (class SearchEngine).  A string is the sequence of   *)
(* its characters.                                                         *)
(***************************************************************************)
Alphabet == {"a", "b", "A"}

\* the longest string of the exhaustive part of the names and queries
MaxLen == 3

\* String.prototype.toLowerCase
ToLowerCase(s) == [i \in 1..Len(s) |-> IF s[i] = "A" THEN "a" ELSE s[i]]

\* String.prototype.startsWith
StartsWith(s, q) == Len(q) <= Len(s) /\ SubSeq(s, 1, Len(q)) = q

\* String.prototype.includes
Includes(s, q) ==
    \E i \in 0..(Len(s) - Len(q)) : SubSeq(s, i + 1, i + Len(q)) = q

Min3(x, y, z) ==
    IF x <= y /\ x <= z THEN x ELSE IF y <= z THEN y ELSE z

\* a substitution cost that charges a match as well
costAlways(x, y) == 1

\* a[i - 1] === b[j - 1] ? 0 : 1
cost(x, y) == IF x = y THEN 0 ELSE 1

\* the inner loop of levenshteinDistance from column j on; dp[j + 1] is the
\* code's dp[j].  (The test on Len has TLC compute a row before it goes on.)
RECURSIVE InnerLoop(_, _, _, _, _, _)
InnerLoop(a, b, i, j, dp, prv) ==
    IF j > Len(b) THEN dp
    ELSE LET cur == dp[j + 1]
             best == Min3(dp[j + 1] + 1, dp[j] + 1, prv + cost(a[i], b[j]))
             row == [dp EXCEPT ![j + 1] = best]
         IN IF Len(row) = Len(dp) THEN InnerLoop(a, b, i, j + 1, row, cur) ELSE dp

\* the outer loop of levenshteinDistance from row i on
RECURSIVE OuterLoop(_, _, _, _)
OuterLoop(a, b, i, dp) ==
    IF i > Len(a) THEN dp
    ELSE LET row == InnerLoop(a, b, i, 1, [dp EXCEPT ![1] = i], dp[1])
         IN IF Len(row) = Len(dp) THEN OuterLoop(a, b, i + 1, row) ELSE dp

levenshteinDistance(a, b) ==
    IF a = <<>> THEN Len(b)
    ELSE IF b = <<>> THEN Len(a)
    ELSE OuterLoop(a, b, 1, [j \in 1..(Len(b) + 1) |-> j - 1])[Len(b) + 1]

\* Math.max(1, Math.floor(name.length * 0.3))
Threshold(name) == Max(1, (Len(name) * 3) \div 10)

calculateSymbolScore(symbol, query) ==
    LET name == ToLowerCase(symbol.name)
        q == ToLowerCase(query)
        distance == levenshteinDistance(name, q)
    IN IF name = q THEN 100
       ELSE IF StartsWith(name, q) THEN 90
       ELSE IF Includes(name, q) THEN 70
       ELSE IF distance <= Threshold(name) THEN Max(1, 60 - distance * 5)
       ELSE 0

SymbolResult(symbol, score) ==
    [type |-> "symbol", file |-> symbol.path, line |-> symbol.startLine,
     kind |-> symbol.kind, name |-> symbol.name, id |-> symbol.id,
     hasScore |-> TRUE, score |-> score]

\* a match of the text tools, with no score
TextResult(file, line) ==
    [type |-> "text", file |-> file, line |-> line,
     kind |-> "", name |-> <<>>, id |-> <<>>,
     hasScore |-> FALSE, score |-> 0]

RECURSIVE ScoreFrom(_, _, _)
ScoreFrom(syms, query, i) ==
    IF i > Len(syms) THEN <<>>
    ELSE LET score == calculateSymbolScore(syms[i], query)
         IN (IF score > 0 THEN <<SymbolResult(syms[i], score)>> ELSE <<>>)
            \o ScoreFrom(syms, query, i + 1)

searchSymbols(t, query) == ScoreFrom(listSymbols(t), query, 1)

\* the matches a text tool prints, each a file and a 1-based line number, as
\* parseRipgrepOutput and parseGrepOutput read them
ParseMatches(matches) ==
    [i \in 1..Len(matches) |-> TextResult(Resolve(matches[i].file), matches[i].line - 1)]

\* ripgrepSearch and grepSearch: exit status 1 is no match, any other failure
\* is thrown
ToolSearch(status, matches) ==
    IF status = "ok" THEN [threw |-> FALSE, results |-> ParseMatches(matches)]
    ELSE IF status = "nomatch" THEN [threw |-> FALSE, results |-> <<>>]
    ELSE [threw |-> TRUE, results |-> <<>>]

\* a searchText that gives up when ripgrep is not there or throws
searchTextNoFallback(repoPath, env) ==
    IF repoPath = <<>> THEN [threw |-> FALSE, results |-> <<>>, ran |-> <<>>]
    ELSE IF env.rg = "absent" THEN [threw |-> TRUE, results |-> <<>>, ran |-> <<>>]
    ELSE [threw   |-> ToolSearch(env.rg, env.matches).threw,
          results |-> ToolSearch(env.rg, env.matches).results,
          ran     |-> <<"rg">>]

\* searchText: ripgrep when it is there and does not throw, else grep; ran
\* lists the tools invoked
searchText(repoPath, env) ==
    LET Ran(out, tools) == [threw |-> out.threw, results |-> out.results, ran |-> tools]
    IN IF repoPath = <<>> THEN Ran(ToolSearch("nomatch", <<>>), <<>>)
       ELSE IF env.rg = "absent" THEN Ran(ToolSearch(env.grep, env.matches), <<"grep">>)
       ELSE IF ~ToolSearch(env.rg, env.matches).threw
       THEN Ran(ToolSearch(env.rg, env.matches), <<"rg">>)
       ELSE Ran(ToolSearch(env.grep, env.matches), <<"rg", "grep">>)

\* the files of the model in the order of String.prototype.localeCompare
FileOrder == <<FileA, FileB, FileSubA>>

FileRank(file) == CHOOSE i \in 1..Len(FileOrder) : FileOrder[i] = file

localeCompare(f, g) == FileRank(f) - FileRank(g)

\* a comparator that puts the lower score first
compareResultsAscending(a, b) ==
    IF a.type = "symbol" /\ b.type = "text" THEN -1
    ELSE IF a.type = "text" /\ b.type = "symbol" THEN 1
    ELSE IF a.hasScore /\ b.hasScore THEN a.score - b.score
    ELSE IF localeCompare(a.file, b.file) # 0 THEN localeCompare(a.file, b.file)
    ELSE a.line - b.line

\* the comparator of sortResults
compareResults(a, b) ==
    IF a.type = "symbol" /\ b.type = "text" THEN -1
    ELSE IF a.type = "text" /\ b.type = "symbol" THEN 1
    ELSE IF a.hasScore /\ b.hasScore THEN b.score - a.score
    ELSE IF localeCompare(a.file, b.file) # 0 THEN localeCompare(a.file, b.file)
    ELSE a.line - b.line

\* Array.prototype.sort is stable: x goes behind everything that does not
\* compare after it
InsertSorted(sorted, x) ==
    LET later == {i \in 1..Len(sorted) : compareResults(sorted[i], x) > 0}
        at == IF later = {} THEN Len(sorted) + 1
              ELSE CHOOSE i \in later : \A j \in later : i <= j
    IN SubSeq(sorted, 1, at - 1) \o <<x>> \o SubSeq(sorted, at, Len(sorted))

RECURSIVE sortResults(_)
sortResults(results) ==
    IF results = <<>> THEN <<>>
    ELSE InsertSorted(sortResults(SubSeq(results, 1, Len(results) - 1)),
                      results[Len(results)])

\* !type || type === "symbol"; type "" is the omitted argument
scoresSymbols(type) == type = "" \/ type = "symbol"

\* a search that runs the text search whatever the symbol search found
wantsTextAlways(results, type) == TRUE

\* results.length === 0 || type === "text"
wantsText(results, type) == Len(results) = 0 \/ type = "text"

\* search(query, type): scored and textCalled say which of searchSymbols and
\* searchText were called, ran which tools searchText invoked
searchOutcome(t, repoPath, env, query, type) ==
    LET scored == scoresSymbols(type)
        symbolResults == IF scored THEN searchSymbols(t, query) ELSE <<>>
        textCalled == wantsText(symbolResults, type)
        text == IF textCalled THEN searchText(repoPath, env)
                ELSE [threw |-> FALSE, results |-> <<>>, ran |-> <<>>]
    IN [threw      |-> text.threw,
        results    |-> IF text.threw THEN <<>>
                       ELSE sortResults(symbolResults \o text.results),
        scored     |-> scored,
        textCalled |-> textCalled,
        ran        |-> text.ran]

\* what a call that did not reach search leaves in the outcome
NoOutcome == [threw |-> FALSE, results |-> <<>>, scored |-> FALSE,
              textCalled |-> FALSE, ran |-> <<>>]

\* a handler that passes every query on to search
handleSearchUnvalidated(t, repoPath, env, query, type) ==
    LET out == searchOutcome(t, repoPath, env, query, type)
    IN [status |-> IF out.threw THEN 500 ELSE 200, error |-> out.threw, out |-> out]

\* HttpServer.handleSearch under handleRequest: a missing or empty query is
\* answered 400 "query parameter is required", a search that throws 500
handleSearch(t, repoPath, env, query, type) ==
    IF query = <<>>
    THEN [status |-> 400, error |-> TRUE, out |-> NoOutcome]
    ELSE LET out == searchOutcome(t, repoPath, env, query, type)
         IN [status |-> IF out.threw THEN 500 ELSE 200, error |-> out.threw,
             out |-> out]

(* inputs of the search engine *)
Match(file, line) == [file |-> file, line |-> line]

Env(rg, grep, matches) == [rg |-> rg, grep |-> grep, matches |-> matches]

Matches == <<Match(FileB, 2), Match(FileA, 3), Match(FileSubA, 1), Match(FileA, 1)>>

Envs == {
    Env("ok", "ok", Matches),
    Env("nomatch", "ok", Matches),
    Env("error", "ok", Matches),
    Env("absent", "nomatch", Matches),
    Env("absent", "error", Matches),
    Env("error", "error", Matches) }

SearchTypes == {"", "symbol", "text"}

\* n times the string s
RECURSIVE Repeat(_, _)
Repeat(s, n) == IF n = 0 THEN <<>> ELSE s \o Repeat(s, n - 1)

Name7 == Repeat(<<"a", "b">>, 3) \o <<"a">>

Name40 == Repeat(<<"a">>, 40)

LongNames == {Name7, Name40}

LongQueries == {
    <<"b", "b">> \o Repeat(<<"a", "b">>, 2) \o <<"b">>,
    <<"b", "b", "a">> \o Repeat(<<"b">>, 4),
    Repeat(<<"b">>, 12) \o Repeat(<<"a">>, 28),
    Repeat(<<"b">>, 13) \o Repeat(<<"a">>, 27) }

Queries == SeqsUpTo(Alphabet, MaxLen) \cup LongQueries

\* the most symbols of a table with several symbols
MaxSymbols == 2

SearchSymbol(name, filePath, lineNum) == MakeSymbol(filePath, name, "module", lineNum)

\* tables of one symbol, of any name
OneSymbolTables ==
    {AddAll(EmptyTable, <<SearchSymbol(n, FileA, 0)>>) :
        n \in (SeqsUpTo(Alphabet, MaxLen) \ {<<>>}) \cup LongNames}

\* tables of several symbols in every order of insertion
SeveralSymbolTables ==
    {AddAll(EmptyTable, syms) :
        syms \in SeqsUpTo({SearchSymbol(n, f, l) :
                              n \in {<<"a">>, <<"a", "b">>},
                              f \in {FileA, FileB}, l \in {0, 1}},
                          MaxSymbols)}

\* the queries put to the tables of several symbols
FewQueries == {<<"a">>, <<"A", "b">>, <<"b">>}

\* who calls search: a caller of the engine, or the server for a request
Routes == {"engine", "http"}

\* the tool behaviours tried behind the HTTP route
HttpEnvs == {Env("ok", "ok", Matches), Env("error", "error", Matches)}

\* the tables searched, each with the queries put to it, the tools it is
\* searched with and the callers
SearchInputs ==
    (OneSymbolTables \X Queries \X {Env("ok", "ok", Matches)} \X {"engine"})
        \cup (SeveralSymbolTables \X (FewQueries \cup {<<>>}) \X Envs \X {"engine"})
        \cup (SeveralSymbolTables \X (FewQueries \cup {<<>>}) \X HttpEnvs \X {"http"})

(***************************************************************************)
(* The search engine as a state machine                                    *)
(***************************************************************************)
\* search.env is how rg and grep behave on the machine and search.route who
\* calls search; the other fields are the engine's repoPath and the last call
\* of search with what it did
NoSearch == [repoPath |-> <<>>, env |-> Env("absent", "nomatch", <<>>),
             route |-> "engine", query |-> <<>>, type |-> "", pc |-> "idle",
             threw |-> FALSE, results |-> <<>>, scored |-> FALSE,
             textCalled |-> FALSE, ran |-> <<>>, status |-> 0]

\* the repository is set before the search
SetRepoPath(repoPath) ==
    /\ search.pc = "idle"
    /\ search.repoPath # repoPath
    /\ search' = [search EXCEPT !.repoPath = repoPath]
    /\ UNCHANGED <<indexVars, graphVars, storeVars, serviceVars>>

\* search(search.query, type).  A search assigns no field of the engine, so
\* one search a behaviour shows them all; after a search that threw the
\* caller searches again.
Search(type) ==
    /\ search.route = "engine"
    /\ search.pc = "idle" \/ search.threw
    /\ LET out == searchOutcome(Table, search.repoPath, search.env, search.query, type)
       IN search' = [search EXCEPT !.type = type, !.pc = "done",
                                   !.threw = out.threw, !.results = out.results,
                                   !.scored = out.scored,
                                   !.textCalled = out.textCalled, !.ran = out.ran,
                                   !.status = 0]
    /\ UNCHANGED <<indexVars, graphVars, storeVars, serviceVars>>

\* GET /search?query=search.query&type=type; status is the HTTP status of the
\* response, 0 when search was called without the server
HandleSearch(type) ==
    /\ search.route = "http"
    /\ search.pc = "idle" \/ search.threw
    /\ LET res == handleSearch(Table, search.repoPath, search.env, search.query, type)
       IN search' = [search EXCEPT !.type = type, !.pc = "done",
                                   !.threw = res.out.threw,
                                   !.results = res.out.results,
                                   !.scored = res.out.scored,
                                   !.textCalled = res.out.textCalled,
                                   !.ran = res.out.ran,
                                   !.status = res.status]
    /\ UNCHANGED <<indexVars, graphVars, storeVars, serviceVars>>

(***************************************************************************)
(* The store: SimpleStore and its JSON files                               *)
(***************************************************************************)
\* what reading a property that an object does not hold, or holds as
\* undefined, gives
Undefined == "(undefined)"

\* the fields of the three record interfaces and of a metadata entry
SymbolFields == <<"id", "name", "kind", "file", "startLine", "endLine",
                  "signature", "hash", "repoPath", "lastModified">>

ModuleFields == <<"id", "name", "file", "startLine", "endLine", "ports",
                  "parameters", "hash", "repoPath", "lastModified">>

ConnectionFields == <<"id", "fromModule", "toModule", "fromPort", "toPort",
                      "signalName", "repoPath">>

MetadataFields == <<"hash", "lastModified">>

\* the fields of type number
NumberFields == {"startLine", "endLine", "lastModified"}

\* obj.f
Field(obj, f) == IF f \in DOMAIN obj THEN obj[f] ELSE Undefined

\* is obj.f a value JSON.stringify writes
Defined(obj, f) ==
    f \in DOMAIN obj /\ (f \in NumberFields \/ obj[f] # Undefined)

\* the decimal text of a number, and the number of a decimal text
Digits == <<"0", "1", "2", "3", "4", "5", "6", "7", "8", "9">>

NumberText(n) == Digits[n + 1]

ParseNumber(t) == (CHOOSE i \in 1..Len(Digits) : Digits[i] = t) - 1

\* JSON.stringify of an object: one member per defined property
stringifyObject(fields, obj) ==
    LET present == SelectSeq(fields, LAMBDA f : Defined(obj, f))
    IN [i \in 1..Len(present) |->
           LET f == present[i]
           IN IF f \in NumberFields
              THEN [key |-> f, t |-> "number", v |-> NumberText(obj[f])]
              ELSE [key |-> f, t |-> "string", v |-> obj[f]]]

\* JSON.parse of an object text
parseObject(members) ==
    [f \in {members[i].key : i \in 1..Len(members)} |->
        LET m == members[CHOOSE i \in 1..Len(members) : members[i].key = f]
        IN IF m.t = "number" THEN ParseNumber(m.v) ELSE m.v]

\* JSON.stringify keeping the first entry only
stringifyEntriesFirst(fields, entries) ==
    [i \in 1..(IF entries = <<>> THEN 0 ELSE 1) |->
        [key |-> entries[i][1], value |-> stringifyObject(fields, entries[i][2])]]

\* JSON.stringify(Array.from(map.entries()))
stringifyEntries(fields, entries) ==
    [i \in 1..Len(entries) |->
        [key |-> entries[i][1], value |-> stringifyObject(fields, entries[i][2])]]

\* map.set(key, obj): a key the map holds keeps its place
mapSet(entries, key, obj) ==
    IF \E i \in 1..Len(entries) : entries[i][1] = key
    THEN [i \in 1..Len(entries) |->
             IF entries[i][1] = key THEN <<key, obj>> ELSE entries[i]]
    ELSE Append(entries, <<key, obj>>)

\* new Map(JSON.parse(text))
RECURSIVE newMap(_)
newMap(text) ==
    IF text = <<>> THEN <<>>
    ELSE LET last == text[Len(text)]
         IN mapSet(newMap(ButLast(text)), last.key, parseObject(last.value))

\* map.set(record.id, record) for each record
RECURSIVE setAll(_, _)
setAll(entries, records) ==
    IF records = <<>> THEN entries
    ELSE setAll(mapSet(entries, records[1].id, records[1]), Tail(records))

\* the entries whose record is not of the repository
withoutRepo(entries, repoPath) ==
    SelectSeq(entries, LAMBDA e : e[2].repoPath # repoPath)

\* a file under dbPath: absent, a JSON text, or cut short by a failed write
NoFile == [exists |-> FALSE, valid |-> TRUE, text |-> <<>>]

JsonFile(text) == [exists |-> TRUE, valid |-> TRUE, text |-> text]

CutFile == [exists |-> TRUE, valid |-> FALSE, text |-> <<>>]

\* new SimpleStore(dbPath), with nothing under dbPath
NewStore ==
    [symbols |-> <<>>, modules |-> <<>>, connections |-> <<>>,
     fileMetadata |-> <<>>,
     disk |-> [symbols |-> NoFile, modules |-> NoFile, connections |-> NoFile,
               metadata |-> NoFile],
     saved |-> FALSE, op |-> "new"]

\* the ways a write of saveData fails: failAt is the file whose write throws
\* (0 for none), left as it was or cut short
SaveFailures == {[failAt |-> 0, cut |-> FALSE], [failAt |-> 2, cut |-> FALSE],
                 [failAt |-> 3, cut |-> TRUE]}

\* the file after writeFileSync number n of saveData
writeFile(old, text, n, fail) ==
    IF fail.failAt = 0 \/ n < fail.failAt THEN JsonFile(text)
    ELSE IF n = fail.failAt /\ fail.cut THEN CutFile
    ELSE old

\* saveData: four writes in one try block, the error caught and logged
saveData(s, fail) ==
    [s EXCEPT
        !.disk = [symbols |-> writeFile(s.disk.symbols,
                                  stringifyEntries(SymbolFields, s.symbols), 1, fail),
                  modules |-> writeFile(s.disk.modules,
                                  stringifyEntries(ModuleFields, s.modules), 2, fail),
                  connections |-> writeFile(s.disk.connections,
                                  stringifyEntries(ConnectionFields, s.connections), 3, fail),
                  metadata |-> writeFile(s.disk.metadata,
                                  stringifyEntries(MetadataFields, s.fileMetadata), 4, fail)],
        !.saved = (fail.failAt = 0)]

\* does JSON.parse of the file throw
Throws(file) == file.exists /\ ~file.valid

\* the map after the load of one file: kept when the file is absent or an
\* earlier statement of the try block threw
loadFile(old, file, reached) ==
    IF reached /\ file.exists /\ file.valid THEN newMap(file.text) ELSE old

\* loadData: four reads in one try block, the error caught and logged
loadData(s) ==
    LET d == s.disk
        r2 == ~Throws(d.symbols)
        r3 == r2 /\ ~Throws(d.modules)
        r4 == r3 /\ ~Throws(d.connections)
    IN [s EXCEPT !.symbols = loadFile(s.symbols, d.symbols, TRUE),
                 !.modules = loadFile(s.modules, d.modules, r2),
                 !.connections = loadFile(s.connections, d.connections, r3),
                 !.fileMetadata = loadFile(s.fileMetadata, d.metadata, r4)]

\* the records of the repository in a map
ofRepo(entries, repoPath) ==
    LET kept == SelectSeq(entries, LAMBDA e : e[2].repoPath = repoPath)
    IN [i \in 1..Len(kept) |-> kept[i][2]]

\* getModuleHierarchy(repoPath)
getModuleHierarchy(s, repoPath) ==
    [modules |-> ofRepo(s.modules, repoPath),
     connections |-> ofRepo(s.connections, repoPath)]

\* the characters of the path strings the store is given
Characters(path) ==
    CASE path = "r" -> <<"r">>
      [] path = "q" -> <<"q">>
      [] path = "r/a.v" -> <<"r", "/", "a", ".", "v">>
      [] path = "q/b.v" -> <<"q", "/", "b", ".", "v">>

\* getStats(repoPath): records counted by repoPath, files by the prefix of
\* their key in fileMetadata
getStats(s, repoPath) ==
    [symbolCount |-> Len(ofRepo(s.symbols, repoPath)),
     moduleCount |-> Len(ofRepo(s.modules, repoPath)),
     connectionCount |-> Len(ofRepo(s.connections, repoPath)),
     fileCount |-> Cardinality({i \in 1..Len(s.fileMetadata) :
                       StartsWith(Characters(s.fileMetadata[i][1]),
                                  Characters(repoPath))})]

StoreFrame == UNCHANGED <<indexVars, graphVars, searchVars, serviceVars>>

\* a fresh store on the same dbPath: new SimpleStore(dbPath), initialize()
Initialize ==
    /\ store.op # "initialize"
    /\ store' = [loadData([NewStore EXCEPT !.disk = store.disk,
                                           !.saved = store.saved])
                    EXCEPT !.op = "initialize"]
    /\ StoreFrame

InsertSymbols(records, fail) ==
    /\ store' = [saveData([store EXCEPT !.symbols = setAll(@, records)], fail)
                    EXCEPT !.op = "insertSymbols"]
    /\ StoreFrame

InsertModules(records, fail) ==
    /\ store' = [saveData([store EXCEPT !.modules = setAll(@, records)], fail)
                    EXCEPT !.op = "insertModules"]
    /\ StoreFrame

InsertConnections(records, fail) ==
    /\ store' = [saveData([store EXCEPT !.connections = setAll(@, records)], fail)
                    EXCEPT !.op = "insertConnections"]
    /\ StoreFrame

UpdateFileMetadata(file, hash, now, fail) ==
    /\ store' = [saveData([store EXCEPT !.fileMetadata =
                               mapSet(@, file, [hash |-> hash, lastModified |-> now])],
                          fail)
                    EXCEPT !.op = "updateFileMetadata"]
    /\ StoreFrame

CleanupRepo(repoPath, fail) ==
    /\ store' = [saveData([store EXCEPT
                               !.symbols = withoutRepo(@, repoPath),
                               !.modules = withoutRepo(@, repoPath),
                               !.connections = withoutRepo(@, repoPath)], fail)
                    EXCEPT !.op = "cleanupRepo"]
    /\ StoreFrame

Close(fail) ==
    /\ store.op # "close"
    /\ store' = [saveData(store, fail) EXCEPT !.op = "close"]
    /\ StoreFrame

IdleStore == store = NewStore

(***************************************************************************)
(* The server: HttpServer.handleRequest and the response it writes         *)
(***************************************************************************)
\* a ServerResponse nothing was written to
NewResponse ==
    [headersSent |-> FALSE, statusCode |-> 0, ended |-> 0, body |-> "none"]

\* res.writeHead(code): the head is stored, and headersSent reads true
writeHead(res, code) == [res EXCEPT !.statusCode = code, !.headersSent = TRUE]

\* res.end(body)
end(res, body) ==
    [res EXCEPT !.ended = @ + 1, !.headersSent = TRUE, !.body = body]

\* a pathname is the sequence of its segments: "/symbol/x" is <<"symbol", "x">>.
\* The branch of the route chain a request takes.
Route(method, pathname) ==
    LET is(p) == pathname = <<p>>
        under(p) == Len(pathname) >= 2 /\ pathname[1] = p
    IN IF method = "POST" /\ is("index") THEN "index"
       ELSE IF method = "POST" /\ is("updateFile") THEN "updateFile"
       ELSE IF method = "GET" /\ is("search") THEN "search"
       ELSE IF method = "GET" /\ under("symbol") THEN "symbol"
       ELSE IF method = "GET" /\ under("file") THEN "file"
       ELSE IF method = "GET" /\ under("files") THEN "files"
       ELSE IF method = "GET" /\ is("fetch") THEN "fetch"
       ELSE IF method = "GET" /\ is("health") THEN "health"
       ELSE "none"

\* decodeURIComponent throws on a malformed escape
Malformed == "%"

\* how the handler of a route can settle: with success true ("ok"), with
\* success false ("fail"), or by throwing or rejecting ("throw")
Outcomes(route) ==
    IF route \in {"index", "updateFile", "search"} THEN {"ok", "fail", "throw"}
    ELSE {"ok", "fail"}

\* the end of handleRequest: the reply after the route chain, or the one of
\* the catch block; both written only if (!res.headersSent)
respond(res, outcome) ==
    IF res.headersSent THEN res
    ELSE end(writeHead(res, IF outcome = "throw" THEN 500
                            ELSE IF outcome = "ok" THEN 200 ELSE 400), "json")

\* the server before its first request
NewHttp ==
    [pc |-> "idle", method |-> "", pathname |-> <<>>, route |-> "none",
     res |-> NewResponse, n |-> 0]

MaxRequests == 2

\* handleRequest(req, res) up to its first await, or to its end where the
\* branch awaits nothing that is pending
HandleRequest(reqMethod, pathname) ==
    /\ http.pc # "awaiting"
    /\ http.n < MaxRequests
    /\ LET method == IF reqMethod = "" THEN "GET" ELSE reqMethod
           route == Route(method, pathname)
           decodeThrows == route \in {"file", "files"} /\ pathname[2] = Malformed
           returned(res) == [pc |-> "returned", res |-> res]
           step == IF reqMethod = "OPTIONS"
                       THEN returned(end(writeHead(NewResponse, 200), "empty"))
                   ELSE IF route = "health"
                       THEN returned(respond(NewResponse, "ok"))
                   ELSE IF route = "none"
                       THEN returned(respond(writeHead(NewResponse, 404), "fail"))
                   ELSE IF decodeThrows
                       THEN returned(respond(NewResponse, "throw"))
                   ELSE [pc |-> "awaiting", res |-> NewResponse]
       IN http' = [pc |-> step.pc, method |-> reqMethod, pathname |-> pathname,
                   route |-> IF reqMethod = "OPTIONS" THEN "none" ELSE route,
                   res |-> step.res, n |-> http.n + 1]
    /\ UNCHANGED cache
    /\ UNCHANGED <<indexVars, graphVars, searchVars, storeVars>>

\* the awaited handler settles and handleRequest runs to its end
Settle(outcome) ==
    /\ http.pc = "awaiting"
    /\ outcome \in Outcomes(http.route)
    /\ http' = [http EXCEPT !.pc = "returned", !.res = respond(@, outcome)]
    /\ UNCHANGED cache
    /\ UNCHANGED <<indexVars, graphVars, searchVars, storeVars>>

IdleHttp == http = NewHttp

(***************************************************************************)
(* The cache: SimpleLRUCache and the KVCache built on it                   *)
(***************************************************************************)
\* a Map is the sequence of its <<key, value>> entries in insertion order
mapHas(entries, key) == \E i \in 1..Len(entries) : entries[i][1] = key

mapGet(entries, key) ==
    IF mapHas(entries, key)
    THEN entries[CHOOSE i \in 1..Len(entries) : entries[i][1] = key][2]
    ELSE Undefined

mapDelete(entries, key) == SelectSeq(entries, LAMBDA e : e[1] # key)

mapKeys(entries) == [i \in 1..Len(entries) |-> entries[i][1]]

\* ttl: options.ttl || Infinity
Infinity == -1

\* new SimpleLRUCache({max, ttl})
NewLRU(max, ttl) ==
    [cache |-> <<>>, timestamps |-> <<>>, maxSize |-> max,
     maxAge |-> IF ttl = 0 THEN Infinity ELSE ttl]

\* a set that evicts nothing
firstKeyNone(c, key) == Undefined

\* the key set evicts: this.cache.keys().next().value, or none
firstKey(c, key) ==
    IF Len(c.cache) >= c.maxSize /\ ~mapHas(c.cache, key) /\ c.cache # <<>>
    THEN c.cache[1][1] ELSE Undefined

\* SimpleLRUCache.set(key, value) at time now
set(c, key, value, now) ==
    LET first == firstKey(c, key)
        room == IF first = Undefined THEN c
                ELSE [c EXCEPT !.cache = mapDelete(@, first),
                               !.timestamps = mapDelete(@, first)]
    IN [room EXCEPT !.cache = mapSet(@, key, value),
                    !.timestamps = mapSet(@, key, now)]

\* SimpleLRUCache.delete(key)
delete(c, key) ==
    [c EXCEPT !.cache = mapDelete(@, key), !.timestamps = mapDelete(@, key)]

\* SimpleLRUCache.get(key) at time now: the value returned (found tells
\* whether it is other than undefined) and the cache left
get(c, key, now) ==
    LET expired == /\ mapHas(c.timestamps, key)
                   /\ mapGet(c.timestamps, key) # 0
                   /\ c.maxAge # Infinity
                   /\ now - mapGet(c.timestamps, key) > c.maxAge
        value == mapGet(c.cache, key)
    IN IF expired
       THEN [found |-> FALSE, value |-> Undefined, c |-> delete(c, key)]
       ELSE IF mapHas(c.cache, key)
       THEN [found |-> TRUE, value |-> value,
             c |-> [c EXCEPT !.cache = mapSet(mapDelete(@, key), key, value)]]
       ELSE [found |-> FALSE, value |-> Undefined, c |-> c]

\* SimpleLRUCache.clear()
clear(c) == [c EXCEPT !.cache = <<>>, !.timestamps = <<>>]

MaxNow == 3

MaxLookups == 2

\* new KVCache({maxItems, maxAge}) at time now.  used lists the stored keys
\* from the one accessed longest ago to the one accessed last, evicted is the
\* key the last call of set evicted.
NewCache(maxItems, maxAge, now) ==
    [lru |-> NewLRU(maxItems, maxAge), hitCount |-> 0, missCount |-> 0,
     now |-> now, used |-> <<>>, evicted |-> Undefined]

\* the keys of used that the cache still stores, key moved to the end when
\* the call accessed it
Touch(used, c, key, accessed) ==
    LET kept == SelectSeq(used, LAMBDA k : mapHas(c.cache, k) /\ k # key)
    IN IF accessed THEN Append(kept, key) ELSE kept

CacheFrame ==
    UNCHANGED http /\ UNCHANGED <<indexVars, graphVars, searchVars, storeVars>>

\* KVCache.set(key, data, hash)
Set(key, hash) ==
    /\ LET entry == [hash |-> hash, timestamp |-> cache.now]
           c == set(cache.lru, key, entry, cache.now)
       IN cache' = [cache EXCEPT !.lru = c,
                                 !.used = Touch(@, c, key, TRUE),
                                 !.evicted = firstKey(cache.lru, key)]
    /\ CacheFrame

\* KVCache.get(key, expectedHash), expectedHash "" when not passed
Get(key, expectedHash) ==
    /\ cache.hitCount + cache.missCount < MaxLookups
    /\ LET got == get(cache.lru, key, cache.now)
           stale == got.found /\ expectedHash # "" /\ got.value.hash # expectedHash
           c == IF stale THEN delete(got.c, key) ELSE got.c
           hit == got.found /\ ~stale
       IN cache' = [cache EXCEPT !.lru = c,
                                 !.hitCount = IF hit THEN @ + 1 ELSE @,
                                 !.missCount = IF hit THEN @ ELSE @ + 1,
                                 !.used = Touch(@, c, key, hit),
                                 !.evicted = Undefined]
    /\ CacheFrame

\* KVCache.delete(key)
Delete(key) ==
    /\ LET c == delete(cache.lru, key)
       IN cache' = [cache EXCEPT !.lru = c, !.used = Touch(@, c, key, FALSE),
                                 !.evicted = Undefined]
    /\ CacheFrame

\* KVCache.clear()
Clear ==
    /\ cache' = [cache EXCEPT !.lru = clear(@), !.hitCount = 0, !.missCount = 0,
                              !.used = <<>>, !.evicted = Undefined]
    /\ CacheFrame

\* time passes: Date.now() grows
Elapse ==
    /\ cache.now < MaxNow
    /\ cache' = [cache EXCEPT !.now = @ + 1, !.evicted = Undefined]
    /\ CacheFrame

IdleCache == cache = NewCache(1, 0, 1)

IdleService == IdleHttp /\ IdleCache

(***************************************************************************)
(* Specifications                                                          *)
(***************************************************************************)
IdleIndex ==
    /\ symbols = <<>>
    /\ nameIndex = EmptyMap
    /\ pathIndex = EmptyMap
    /\ disk = Snapshot(Absent, Absent, Absent)
    /\ lastCall = NoCall
    /\ nCalls = 0
    /\ prev = NoPrev

IdleGraph ==
    /\ modules = <<>>
    /\ instances = <<>>
    /\ graph = EmptyGraph
    /\ built = FALSE
    /\ walk = IdleWalk

IdleSearch == search = NoSearch

(* the symbol index *)
Init == InitIndex /\ IdleGraph /\ IdleSearch /\ IdleStore /\ IdleService

Next == NextIndex

Spec == Init /\ [][Next]_vars

(* buildGraph on module and instance lists *)
Ports == <<Port("i", "input"), Port("o", "output")>>

ModuleLists == {
    <<>>,
    <<Module("A", "fa", Ports), Module("T", "ft", Ports)>>,
    <<Module("T", "ft", Ports), Module("A", "fa", Ports)>>,
    <<Module("T", "ft", <<>>), Module("A", "fa", Ports), Module("B", "fb", Ports)>>,
    <<Module("A", "fa", Ports), Module("B", "fa", Ports)>>,
    <<Module("A", "fa", Ports), Module("A", "ft", <<>>)>> }

ConnectionLists == {
    <<Conn("o", "s", "output")>>,
    <<Conn("i", "s", "input")>>,
    <<Conn("z", "s", "input"), Conn("i", "t", "input")>>,
    <<Conn("i", "s", "output"), Conn("o", "t", "input")>> }

InstanceChoices ==
    {Instance("u", type, file, conns) :
        type \in {"A", "B", "X"}, file \in {"fa", "ft", "fx"},
        conns \in ConnectionLists}

\* the most instances of a design
MaxInstances == 2

InitGraph ==
    /\ IdleStore /\ IdleService
    /\ IdleIndex /\ IdleSearch
    /\ modules \in ModuleLists
    /\ instances \in SeqsUpTo(InstanceChoices, MaxInstances)
    /\ graph = EmptyGraph
    /\ built = FALSE
    /\ walk = IdleWalk

NextGraph == BuildGraph

SpecGraph == InitGraph /\ [][NextGraph]_vars

(* the recursive queries on graphs with and without cycles *)
WalkModules == <<Module("T", "ft", Ports), Module("A", "fa", Ports),
                 Module("B", "fb", <<>>)>>

WalkInstanceChoices ==
    ({Instance("u", type, file, <<>>) :
         type \in {"T", "A", "B"}, file \in {"ft", "fa", "fb"}}
        \ {Instance("u", "A", "fa", <<>>), Instance("u", "B", "fb", <<>>)})
    \cup {Instance("u", "X", "fb", <<>>)}

\* the most instances of a design whose graph is walked
MaxWalkInstances == 3

InitWalk ==
    /\ IdleStore /\ IdleService
    /\ IdleIndex /\ IdleSearch
    /\ modules = WalkModules
    /\ instances \in SeqsUpTo(WalkInstanceChoices, MaxWalkInstances)
    /\ graph = EmptyGraph
    /\ built = FALSE
    /\ walk = IdleWalk

NextWalk ==
    \/ BuildGraph
    \/ \E to \in {"A", "X", "T"} : FindModulePathStart("T", to)
    \/ FindModulePathCall
    \/ FindModulePathResume
    \/ GetCriticalPathStart
    \/ GetCriticalPathCall
    \/ GetCriticalPathResume
    \/ \E name \in {"B", "X"} : GetModuleComplexityStart(name)
    \/ GetModuleComplexityCall
    \/ GetModuleComplexityResume

SpecWalk == InitWalk /\ [][NextWalk]_vars

\* a query that has been called runs on until it returns: the engine is
\* single-threaded and the queries are synchronous
FairSpecWalk == SpecWalk /\ WF_vars(WalkStep)

(* searches *)
InitSearch ==
    /\ IdleStore /\ IdleService
    /\ \E in \in SearchInputs :
          /\ symbols = in[1].symbols
          /\ nameIndex = in[1].nameIndex
          /\ pathIndex = in[1].pathIndex
          /\ search = [NoSearch EXCEPT !.query = in[2], !.env = in[3],
                                       !.route = in[4]]
    /\ disk = Snapshot(Absent, Absent, Absent)
    /\ lastCall = NoCall
    /\ nCalls = 0
    /\ prev = NoPrev
    /\ IdleGraph

NextSearch ==
    \/ SetRepoPath(Cwd)
    \/ \E type \in SearchTypes : Search(type)
    \/ \E type \in SearchTypes : HandleSearch(type)

SpecSearch == InitSearch /\ [][NextSearch]_vars


(* queries of the index, the search engine and the graph on one engine *)
QueryTables ==
    {AddAll(EmptyTable, syms) :
        syms \in {<<SearchSymbol(<<"a">>, FileA, 0), SearchSymbol(<<"a", "b">>, FileB, 1)>>,
                  <<SearchSymbol(<<"a">>, FileB, 1), SearchSymbol(<<"a">>, FileA, 1)>>}}

QueryEnvs == {Env("ok", "ok", Matches), Env("error", "error", Matches)}

QueryInstanceLists == {
    <<Instance("u", "T", "fa", <<>>), Instance("u", "T", "fb", <<Conn("o", "s", "output")>>),
      Instance("u", "A", "fb", <<Conn("i", "s", "input")>>)>>,
    <<Instance("u", "A", "ft", <<Conn("i", "s", "input")>>), Instance("u", "T", "fa", <<>>)>>,
    <<Instance("u", "B", "ft", <<>>), Instance("u", "A", "fb", <<Conn("o", "t", "output")>>)>> }

InitQuery ==
    /\ IdleStore /\ IdleService
    /\ \E t \in QueryTables :
          /\ symbols = t.symbols
          /\ nameIndex = t.nameIndex
          /\ pathIndex = t.pathIndex
    /\ \E env \in QueryEnvs, route \in Routes :
          search = [NoSearch EXCEPT !.query = <<"a">>, !.env = env, !.route = route]
    /\ disk = Snapshot(Absent, Absent, Absent)
    /\ lastCall = NoCall
    /\ nCalls = 0
    /\ prev = NoPrev
    /\ modules = WalkModules
    /\ instances \in QueryInstanceLists
    /\ graph = EmptyGraph
    /\ built = FALSE
    /\ walk = IdleWalk

NextQuery ==
    \/ BuildGraph
    \/ \E to \in {"A", "X"} : FindModulePathStart("T", to)
    \/ FindModulePathCall
    \/ FindModulePathResume
    \/ GetCriticalPathStart
    \/ GetCriticalPathCall
    \/ GetCriticalPathResume
    \/ \E name \in {"B", "X"} : GetModuleComplexityStart(name)
    \/ GetModuleComplexityCall
    \/ GetModuleComplexityResume
    \/ SetRepoPath(Cwd)
    \/ \E type \in SearchTypes : Search(type)
    \/ \E type \in SearchTypes : HandleSearch(type)

SpecQuery == InitQuery /\ [][NextQuery]_vars

(* the store: inserts, clean-ups, saves and fresh stores on one dbPath *)
StoreSymbol(id, name, signature, repoPath) ==
    [id |-> id, name |-> name, kind |-> "module", file |-> "a.v",
     startLine |-> 1, endLine |-> 9, signature |-> signature, hash |-> "h1",
     repoPath |-> repoPath, lastModified |-> 7]

StoreModule(id, ports, repoPath) ==
    [id |-> id, name |-> id, file |-> "a.v", startLine |-> 0, endLine |-> 4,
     ports |-> ports, parameters |-> "[]", hash |-> "h2",
     repoPath |-> repoPath, lastModified |-> 3]

StoreConnection(id, signalName, repoPath) ==
    [id |-> id, fromModule |-> "T", toModule |-> "A", fromPort |-> "o",
     toPort |-> "i", signalName |-> signalName, repoPath |-> repoPath]

SymbolBatches == {
    <<StoreSymbol("a", "m", Undefined, "r")>>,
    <<StoreSymbol("b", "n", "(clk)", "q"), StoreSymbol("a", "M", "()", "r")>> }

ModuleBatches == {<<StoreModule("T", "[{\"name\":\"o\"}]", "r")>>}

ConnectionBatches == {
    <<StoreConnection("c2", "t", "q"), StoreConnection("c1", "s", "r")>> }

\* the files whose metadata is recorded
StoreFiles == {"r/a.v", "q/b.v"}

InitStore ==
    /\ IdleIndex /\ IdleGraph /\ IdleSearch /\ IdleService
    /\ store = NewStore

NextStore ==
    \/ Initialize
    \/ \E records \in SymbolBatches, fail \in SaveFailures : InsertSymbols(records, fail)
    \/ \E records \in ModuleBatches, fail \in SaveFailures : InsertModules(records, fail)
    \/ \E records \in ConnectionBatches, fail \in SaveFailures :
           InsertConnections(records, fail)
    \/ \E file \in StoreFiles, fail \in SaveFailures :
           UpdateFileMetadata(file, "h1", 5, fail)
    \/ \E fail \in SaveFailures : CleanupRepo("r", fail)
    \/ \E fail \in SaveFailures : Close(fail)

SpecStore == InitStore /\ [][NextStore]_vars

(* buildGraph called again and again on one builder *)
RebuildModuleLists == {
    <<Module("A", "fa", Ports), Module("T", "ft", Ports)>>,
    <<Module("T", "ft", <<>>), Module("A", "fa", Ports), Module("B", "fb", Ports)>>,
    <<Module("A", "fa", Ports), Module("B", "fa", Ports)>>,
    <<>> }

RebuildInstanceLists ==
    {<<>>} \cup {<<inst>> : inst \in InstanceChoices}
        \cup {<<Instance("u", "A", "ft", <<Conn("i", "s", "input")>>),
                Instance("v", "A", "ft", <<Conn("i", "s", "input")>>)>>}

InitRebuild ==
    /\ IdleStore /\ IdleService /\ IdleIndex /\ IdleSearch /\ IdleGraph

NextRebuild ==
    \E mods \in RebuildModuleLists, insts \in RebuildInstanceLists : Rebuild(mods, insts)

SpecRebuild == InitRebuild /\ [][NextRebuild]_vars

(***************************************************************************)
(* The server answering requests                                           *)
(***************************************************************************)
\* req.method, "" when the request has none
Methods == {"GET", "POST", "OPTIONS", "DELETE", ""}

Pathnames ==
    {<<"index">>, <<"updateFile">>, <<"search">>, <<"symbol", "x">>,
     <<"file", "x">>, <<"file", Malformed>>, <<"files", "x">>, <<"fetch">>,
     <<"health">>, <<"nope">>, <<"">>}

InitHttp == IdleIndex /\ IdleGraph /\ IdleSearch /\ IdleStore /\ IdleService

SettleStep == \E outcome \in {"ok", "fail", "throw"} : Settle(outcome)

NextHttp ==
    \/ \E method \in Methods, pathname \in Pathnames : HandleRequest(method, pathname)
    \/ SettleStep

SpecHttp == InitHttp /\ [][NextHttp]_vars

\* the promise handleRequest awaits settles, and the event loop then runs the
\* rest of handleRequest
FairSpecHttp == SpecHttp /\ WF_vars(SettleStep)

(***************************************************************************)
(* The cache under set, get, delete and clear                              *)
(***************************************************************************)
\* the item limits the caches are built with
ItemLimits == {1, 2}

CacheKeys == {"a", "b", "c"}

Hashes == {"h1", "h2"}

InitCache ==
    /\ IdleIndex /\ IdleGraph /\ IdleSearch /\ IdleStore /\ IdleHttp
    /\ cache \in {NewCache(maxItems, maxAge, 1) :
                     maxItems \in ItemLimits, maxAge \in {0, 1}}

NextCache ==
    \/ \E key \in CacheKeys, hash \in Hashes : Set(key, hash)
    \/ \E key \in CacheKeys, expectedHash \in Hashes \cup {""} : Get(key, expectedHash)
    \/ \E key \in CacheKeys : Delete(key)
    \/ Clear
    \/ Elapse

SpecCache == InitCache /\ [][NextCache]_vars
(***************************************************************************)
(* Claims about the symbol table                                           *)
(***************************************************************************)
\* the symbols a caller can still obtain for symbol s: through listSymbols,
\* findByName and getSymbolsInFile (asked with the path as passed and as stored)
Returned(t, p, name) ==
    Range(listSymbols(t)) \cup findByName(t, name)
        \cup getSymbolsInFile(t, p) \cup getSymbolsInFile(t, Resolve(p))

\* the two contents of a pair of consecutive updateFile calls on one path
FirstContent == fileContent(disk, lastCall.path, prev.arg)

SecondContent == fileContent(disk, lastCall.path, lastCall.arg)

TwoUpdates ==
    /\ lastCall.op = "updateFile" /\ ~lastCall.threw
    /\ prev.valid /\ ~prev.threw

\* C1: replacement, not accumulation.  After updateFile(p, c1) followed by
\* updateFile(p, c2) with c1 # c2, no symbol of c1's extraction is still
\* returned for path p unless c2's extraction yields it too; for every path
\* string p, resolved or not.
C1_Replacement ==
    (TwoUpdates /\ FirstContent # SecondContent) =>
        \A s \in Range(Extract(lastCall.path, FirstContent)) :
            s \in Range(Extract(lastCall.path, SecondContent))
            \/ s \notin Returned(Table, lastCall.path, s.name)

\* C2: idempotent update.  A second updateFile(p, c) right after the first
\* leaves the symbols map (its id -> symbol entries), nameIndex and pathIndex
\* as the first call left them.
C2_Idempotent ==
    [][ ( /\ lastCall.op = "updateFile"
          /\ lastCall'.op = "updateFile"
          /\ lastCall'.path = lastCall.path
          /\ lastCall'.arg = lastCall.arg
          /\ nCalls' = nCalls + 1 )
        => ( /\ Range(symbols') = Range(symbols)
             /\ nameIndex' = nameIndex
             /\ pathIndex' = pathIndex ) ]_vars

\* updateFile(p, c) has run twice in a row, on a table that also holds the
\* symbols of another file
C2_Witness ==
    /\ TwoUpdates
    /\ prev.arg = lastCall.arg
    /\ getSymbolsInFile(Table, Resolve(lastCall.path)) # {}
    /\ \E s \in Range(symbols) : s.path # Resolve(lastCall.path)

(***************************************************************************)
(* Claims about the module graph                                           *)
(***************************************************************************)
\* every name a graph of the model can hold, "X" being a module type that no
\* module declares
GraphNames == {"T", "A", "B", "X"}

Children(g, name) == Range(EdgeSet(g.edges, name))

Parents(g, name) == Range(EdgeSet(g.reverseEdges, name))

\* C3: graph symmetry.  In every graph buildGraph produces, B is in the
\* forward edge set of A exactly when A is in the reverse edge set of B, for
\* all names A and B, unresolved module types included.
C3_GraphSymmetry ==
    built => \A a \in GraphNames, b \in GraphNames :
                 b \in Children(graph, a) <=> a \in Parents(graph, b)

\* a built graph in which a module has two parents and an edge leads to an
\* unresolved module type
C3_Witness ==
    /\ built
    /\ \E b \in GraphNames : Cardinality(Parents(graph, b)) = 2
    /\ \E a \in GraphNames : "X" \in Children(graph, a)

\* C4: no infinite loop on cycles.  getCriticalPath, getModuleComplexity and
\* findModulePath, once called, return, whatever the instance list: with
\* cycles of two modules, with modules that instantiate themselves.
C4_Terminates == (walk.pc = "running") ~> (walk.pc = "done")

\* getCriticalPath has returned on a graph whose top-level module T reaches
\* the cycle A -> B -> A
C4_Witness ==
    /\ walk.pc = "done"
    /\ walk.query = "getCriticalPath"
    /\ getTopLevelModules(graph) = <<"T">>
    /\ "A" \in Children(graph, "T")
    /\ "B" \in Children(graph, "A")
    /\ "A" \in Children(graph, "B")

\* instance k is attached to a parent module and its module type is a node
Attached(k) ==
    /\ findModuleByFile(instances[k].file, modules) # <<>>
    /\ instances[k].moduleType \in NodeNames(graph)

\* connection c of instance k binds signal s to a port that the child module
\* declares with direction dir, the direction the connection carries
Binds(k, c, s, dir) ==
    /\ Attached(k)
    /\ c \in 1..Len(instances[k].connections)
    /\ instances[k].connections[c].signalName = s
    /\ instances[k].connections[c].direction = dir
    /\ \E p \in Range(NodeGet(graph, instances[k].moduleType).ports) :
           /\ p.name = instances[k].connections[c].portName
           /\ p.direction = dir

Endpoint(k, c) ==
    [module |-> instances[k].moduleType, port |-> instances[k].connections[c].portName]

TwoModuleDesign(p, c) ==
    /\ Len(modules) = 2 /\ Len(instances) = 1
    /\ {p, c} = {1, 2}
    /\ modules[p].name # modules[c].name
    /\ modules[p].filePath # modules[c].filePath
    /\ instances[1].file = modules[p].filePath
    /\ instances[1].moduleType = modules[c].name

\* C6: end-to-end two-module design.  When module P has one instance of
\* module C, declared in another file, buildGraph yields the node set {C, P}
\* and the one forward edge P -> C, getTopLevelModules returns [P] and
\* getLeafModules returns [C].
C6_TwoModuleDesign ==
    built => \A p \in {1, 2}, c \in {1, 2} :
        TwoModuleDesign(p, c) =>
            LET P == modules[p].name
                C == modules[c].name
            IN /\ NodeNames(graph) = {C, P}
               /\ \A a \in GraphNames :
                      Children(graph, a) = IF a = P THEN {C} ELSE {}
               /\ getTopLevelModules(graph) = <<P>>
               /\ getLeafModules(graph) = <<C>>

\* the graph of a two-module design has been built
C6_Witness == built /\ \E p \in {1, 2}, c \in {1, 2} : TwoModuleDesign(p, c)

(***************************************************************************)
(* Claims about the search engine                                          *)
(***************************************************************************)
\* the edit distance of a and b by the two-row Wagner-Fischer recurrence:
\* row is the row of a's character x so far, above the finished row before it
RECURSIVE FillRow(_, _, _, _, _)
FillRow(above, x, b, row, j) ==
    IF j > Len(b) THEN row
    ELSE LET cell == Min3(above[j + 1] + 1, row[j] + 1,
                          above[j] + (IF x = b[j] THEN 0 ELSE 1))
             longer == Append(row, cell)
         IN IF Len(longer) = j + 1 THEN FillRow(above, x, b, longer, j + 1) ELSE row

RECURSIVE EditRows(_, _, _, _)
EditRows(a, b, i, above) ==
    IF i > Len(a) THEN above[Len(b) + 1]
    ELSE LET row == FillRow(above, a[i], b, <<i>>, 1)
         IN IF Len(row) = Len(above) THEN EditRows(a, b, i + 1, row) ELSE -1

EditDistance(a, b) == EditRows(a, b, 1, [j \in 1..(Len(b) + 1) |-> j - 1])

IsPrefixOf(q, n) == \E k \in 0..Len(n) : SubSeq(n, 1, k) = q

IsInfixOf(q, n) == \E i \in 1..(Len(n) + 1), k \in 0..Len(n) : SubSeq(n, i, k) = q

\* the score the ranking rule gives name N for query Q
RankingRule(N, Q) ==
    LET n == ToLowerCase(N)
        q == ToLowerCase(Q)
        d == EditDistance(n, q)
        threshold == Max(1, (3 * Len(n)) \div 10)
    IN IF n = q THEN 100
       ELSE IF IsPrefixOf(q, n) THEN 90
       ELSE IF IsInfixOf(q, n) THEN 70
       ELSE IF d <= threshold THEN Max(1, 60 - 5 * d)
       ELSE 0

\* search has been called and has ended: directly, or by a request that was
\* not rejected before the call
SearchCalled == search.pc = "done" /\ search.status # 400

SymbolSearchDone ==
    SearchCalled /\ ~search.threw /\ search.type \in {"", "symbol"}

\* C7: ranking rule.  For every symbol name N and query Q, compared without
\* regard to case, the score is 100 if N equals Q, else 90 if N starts with Q,
\* else 70 if N contains Q, else max(1, 60 - 5d) when the edit distance d of
\* N and Q is at most max(1, floor(0.3 * len(N))), else 0, and then the symbol
\* is not among the results; the single-row dynamic program returns the edit
\* distance.
C7_RankingRule ==
    SymbolSearchDone =>
        \A i \in 1..Len(symbols) :
            LET s == symbols[i]
                want == RankingRule(s.name, search.query)
                hits == {r \in Range(search.results) : r.type = "symbol" /\ r.id = s.id}
            IN /\ calculateSymbolScore(s, search.query) = want
               /\ levenshteinDistance(ToLowerCase(s.name), ToLowerCase(search.query))
                      = EditDistance(ToLowerCase(s.name), ToLowerCase(search.query))
               /\ \A r \in hits : r.score = want
               /\ (hits # {}) <=> (want > 0)

\* a search has returned a symbol of a long name with the least score, 1, at
\* edit distance 12
C7_Witness ==
    /\ SymbolSearchDone
    /\ \E r \in Range(search.results) : r.score = 1 /\ Len(r.name) = 40

\* results r and s, of one type, are in the order of the listing: by
\* descending score, then by file path, then by line
InOrder(r, s) ==
    \/ r.score > s.score
    \/ /\ r.score = s.score
       /\ \/ localeCompare(r.file, s.file) < 0
          \/ r.file = s.file /\ r.line <= s.line

\* C8: result ordering.  In the list search returns every symbol result
\* precedes every text result, and two adjacent results of one type are
\* ordered by descending score, then by ascending file path, then by
\* ascending line, whatever the order in which the symbols were indexed.
C8_ResultOrdering ==
    (SearchCalled /\ ~search.threw) =>
        \A i \in 1..(Len(search.results) - 1) :
            LET r == search.results[i]
                s == search.results[i + 1]
            IN /\ ~(r.type = "text" /\ s.type = "symbol")
               /\ r.type = s.type => InOrder(r, s)

\* what buildIndex would leave behind had the table been empty before the call
FreshBuild ==
    buildIndex(EmptyTable, disk, lastCall.path, lastCall.ctagsOk, lastCall.output)

\* C9: buildIndex populates from empty.  After buildIndex(r) the table holds
\* exactly the symbols extracted under r: listSymbols, findByName and
\* getSymbolsInFile answer as they would had the table been empty before.
C9_PopulatesFromEmpty ==
    lastCall.op = "buildIndex" =>
        /\ Range(listSymbols(Table)) = Range(listSymbols(FreshBuild))
        /\ \A n \in DOMAIN nameIndex \cup DOMAIN FreshBuild.nameIndex :
               findByName(Table, n) = findByName(FreshBuild, n)
        /\ \A p \in DOMAIN pathIndex \cup DOMAIN FreshBuild.pathIndex :
               getSymbolsInFile(Table, p) = getSymbolsInFile(FreshBuild, p)

\* the files the fallback walk of the last buildIndex found
Discovered == Range(findVerilogFiles(disk, lastCall.path))

FallbackRan == lastCall.op = "buildIndex" /\ ~lastCall.ctagsOk

\* C10: per-file failure tolerance.  When a discovered file cannot be read,
\* buildIndex still completes without an error, every symbol of every other
\* discovered file is in the table, and the failing file contributes none.
C10_FailureTolerance ==
    (FallbackRan /\ \E f \in Discovered : ~CanRead(disk, f)) =>
        /\ ~lastCall.threw
        /\ \A g \in Discovered : CanRead(disk, g) =>
               \A s \in Range(Extract(g, ReadFile(disk, g))) :
                   s \in Range(listSymbols(Table))
        /\ \A f \in Discovered : ~CanRead(disk, f) =>
               getSymbolsInFile(FreshBuild, f) = {}
(***************************************************************************)
(* Further claims about the symbol table                                   *)
(***************************************************************************)
\* every path the path index knows before or after a step
IndexedPaths == DOMAIN pathIndex \cup DOMAIN pathIndex'

\* the step is a call of updateFile
UpdateStep == lastCall'.op = "updateFile" /\ nCalls' = nCalls + 1

\* C11: updateFile touches only its own path.  updateFile(p, c) leaves
\* getSymbolsInFile(q) as it was for every other indexed path q, also when p
\* and q have the same basename, and removes nothing when p was not indexed
\* before.
C11_OnlyOwnPath ==
    [][ UpdateStep =>
          /\ \A q \in IndexedPaths \ {Resolve(lastCall'.path)} :
                 getSymbolsInFile(Table, q)' = getSymbolsInFile(Table, q)
          /\ Resolve(lastCall'.path) \notin DOMAIN pathIndex =>
                 Range(symbols) \subseteq Range(symbols') ]_vars

\* the (path, name, startLine) triple of a symbol
Triple(s) == <<s.path, s.name, s.startLine>>

\* the first operation was a fallback buildIndex, so the indexed files are the
\* readable files its walk found and the table was empty before
FirstFallbackBuild == FallbackRan /\ nCalls = 1

\* every symbol extracted from a currently indexed file
ExtractedSymbols ==
    UNION { Range(Extract(g, ReadFile(disk, g))) :
                g \in {f \in Discovered : CanRead(disk, f)} }

\* C12: findByName spans files.  findByName(name) returns one entry per
\* distinct (path, name, startLine) extracted with exactly that name from
\* every currently indexed file, and no symbol of another name.
C12_FindByNameSpansFiles ==
    FirstFallbackBuild =>
        \A n \in DOMAIN nameIndex \cup {s.name : s \in ExtractedSymbols} :
            /\ {Triple(s) : s \in findByName(Table, n)}
                   = {Triple(s) : s \in {x \in ExtractedSymbols : x.name = n}}
            /\ \A s \in findByName(Table, n) : s.name = n

\* ids, names and paths a caller may ask for
AskedIds ==
    {generateSymbolId(p, n, l) : p \in UpdatePaths, n \in {"m", "n", "q"}, l \in 0..2}

AskedNames == {"m", "n", "q", "M"}

AskedSignals == {"s", "t", "u"}

\* the index answers for what it does not hold
AbsentInIndex ==
    /\ \A id \in AskedIds \ SymIds(symbols) : getSymbol(Table, id) = <<>>
    /\ \A n \in AskedNames \ DOMAIN nameIndex : findByName(Table, n) = {}
    /\ \A p \in UpdatePaths \ DOMAIN pathIndex : getSymbolsInFile(Table, p) = {}

\* the modules reached from the modules of S along at most n edges
RECURSIVE ReachedFrom(_, _, _)
ReachedFrom(g, S, n) ==
    IF n = 0 THEN S
    ELSE ReachedFrom(g, S \cup UNION {Range(EdgeSet(g.edges, m)) : m \in S}, n - 1)

Connected(g, from, to) ==
    to \in ReachedFrom(g, {from}, Cardinality(DOMAIN g.edges) + 1)

Finished(q) == walk.pc = "done" /\ walk.query = q

\* a signal no flow carries
UnknownSignal(g, sig) == \A i \in 1..Len(g.signalFlows) : g.signalFlows[i].signal # sig

\* the graph answers for what it does not hold
AbsentInGraph ==
    /\ \A sig \in AskedSignals : UnknownSignal(graph, sig) =>
           getSignalImpactAnalysis(graph, sig)
               = [sources |-> <<>>, sinks |-> <<>>, affectedModules |-> <<>>]
    /\ (Finished("getModuleComplexity") /\ walk.from \notin NodeNames(graph)) =>
           walk.result.metrics = NoMetrics
    /\ ( /\ Finished("findModulePath")
         /\ \/ walk.from \notin NodeNames(graph)
            \/ walk.to \notin NodeNames(graph)
            \/ ~Connected(graph, walk.from, walk.to) )
       => ~walk.result.found
    /\ walk.query \in {"getModuleComplexity", "findModulePath"} =>
           walk.pc # "overflow"

\* C13: absence is a value.  getSymbol of an unknown id gives the absent
\* marker, findByName and getSymbolsInFile of an unknown key give an empty
\* list, getModuleComplexity of an unknown module gives all-zero metrics,
\* getSignalImpactAnalysis of an unknown signal gives empty lists, and
\* findModulePath between unconnected or unknown modules gives the not-found
\* marker; none of them raises an error.
C13_AbsenceIsValue == AbsentInIndex /\ AbsentInGraph

\* the symbols of the table the ranking rule scores above 0 for the query
Scoring == {i \in 1..Len(symbols) : RankingRule(symbols[i].name, search.query) > 0}

ResultTypes == {search.results[i].type : i \in 1..Len(search.results)}

SearchStep == search' # search /\ search'.repoPath = search.repoPath

\* the text entries of a result list
TextEntries(results) == {r \in Range(results) : r.type = "text"}

RgFails == search.env.rg \in {"absent", "error"}

GrepFails == search.env.grep = "error"

\* C15: text-search degradation.  When ripgrep is unavailable or its run
\* fails, the text search falls back to grep and returns grep's matches
\* without failing; an error reaches the caller only when every strategy
\* fails; and a failed search leaves the engine and the symbol table as they
\* were.
C15_Degradation ==
    [][ (SearchStep /\ search'.textCalled /\ search.repoPath # <<>>) =>
          /\ (RgFails /\ ~GrepFails) =>
                 /\ ~search'.threw
                 /\ search'.ran[Len(search'.ran)] = "grep"
                 /\ TextEntries(search'.results)
                        = IF search.env.grep = "ok"
                          THEN Range(ParseMatches(search.env.matches)) ELSE {}
          /\ search'.threw <=> (RgFails /\ GrepFails)
          /\ search'.threw =>
                 /\ UNCHANGED <<symbols, nameIndex, pathIndex>>
                 /\ search'.env = search.env
                 /\ search'.query = search.query ]_vars

\* ripgrep was run and failed, and the search returned the matches of grep
C15_Witness ==
    /\ search.pc = "done" /\ ~search.threw
    /\ search.ran = <<"rg", "grep">>
    /\ TextEntries(search.results) # {}

\* a request for a search with the empty query has been answered
EmptyQueryAnswered ==
    search.pc = "done" /\ search.status # 0 /\ search.query = <<>>

FailedFiles == {f \in Discovered : ~CanRead(disk, f)}

\* what the last buildIndex returned to its caller
BuildReturned == buildIndexValue(disk, lastCall.path, lastCall.ctagsOk)

\* C17: failure count surfaced.  When k files fail extraction during
\* buildIndex, the value buildIndex returns reports the failure count k
\* together with the best-effort result.
C17_FailureCountSurfaced ==
    (FallbackRan /\ FailedFiles # {}) =>
        /\ BuildReturned # <<>>
        /\ BuildReturned.failures = Cardinality(FailedFiles)

\* C18: symbol uniqueness.  In every reachable state no two symbols that
\* listSymbols returns have the same (path, name, startLine).
C18_SymbolUniqueness ==
    \A i, j \in 1..Len(listSymbols(Table)) :
        i # j => Triple(listSymbols(Table)[i]) # Triple(listSymbols(Table)[j])

\* a file has been updated twice and the table holds a symbol of it next to a
\* symbol of the same name and line in another file
C18_Witness ==
    /\ TwoUpdates
    /\ \E s, u \in Range(listSymbols(Table)) :
           /\ s.path = Resolve(lastCall.path)
           /\ u.path # s.path /\ u.name = s.name /\ u.startLine = s.startLine

(***************************************************************************)
(* Further claims about the module graph                                   *)
(***************************************************************************)
\* the module types instantiated that no module declares
Unresolved == {instances[i].moduleType : i \in 1..Len(instances)} \ NodeNames(graph)

\* module m instantiates no module that is declared
NoResolvedChild(m) == Range(EdgeSet(graph.edges, m)) \cap NodeNames(graph) = {}

\* the unresolved types stay out of the critical path
CriticalPathResolved ==
    Finished("getCriticalPath") => Range(walk.result.path) \cap Unresolved = {}

\* the unresolved types stay out of the paths found
ModulePathResolved ==
    Finished("findModulePath") => Range(walk.result.path) \cap Unresolved = {}

\* the unresolved types are not counted in the hierarchy depth
DepthResolved ==
    (Finished("getModuleComplexity") /\ NoResolvedChild(walk.from)) =>
        walk.result.metrics.hierarchyDepth <= 1

\* a module whose instances are all of unresolved types is a leaf
LeavesResolved ==
    \A m \in NodeNames(graph) :
        NoResolvedChild(m) => m \in Range(getLeafModules(graph))

\* C19: unresolved module types stay out of node-based analyses.  The name of
\* an instantiated type that no module declares is never in the result of
\* getCriticalPath, never an element of a path findModulePath returns, is not
\* counted in hierarchyDepth, and does not keep its parent out of
\* getLeafModules when the parent instantiates no declared module.
C19_UnresolvedStayOut ==
    built => /\ CriticalPathResolved
             /\ ModulePathResolved
             /\ DepthResolved
             /\ LeavesResolved

\* the (instance, connection) pairs of the attached instances whose module
\* type is a node
FlowPairs ==
    UNION { {<<k, c>> : c \in 1..Len(instances[k].connections)} :
                k \in {i \in 1..Len(instances) : Attached(i)} }

\* the signal and path the flow of a pair records
PairRecord(p) ==
    [signal |-> instances[p[1]].connections[p[2]].signalName,
     path   |-> <<findModuleByFile(instances[p[1]].file, modules)[1].name,
                  instances[p[1]].moduleType>>]

FlowRecord(f) == [signal |-> f.signal, path |-> f.path]

\* the child module of the pair declares the port the connection names
DeclaresPort(p) ==
    \E q \in Range(NodeGet(graph, instances[p[1]].moduleType).ports) :
        q.name = instances[p[1]].connections[p[2]].portName

\* signalFlows holds one flow for each pair of P, and no other flow
OneFlowEach(P) ==
    \A v \in {PairRecord(p) : p \in P}
              \cup {FlowRecord(graph.signalFlows[i]) : i \in 1..Len(graph.signalFlows)} :
        Cardinality({i \in 1..Len(graph.signalFlows) :
                        FlowRecord(graph.signalFlows[i]) = v})
            = Cardinality({p \in P : PairRecord(p) = v})

\* C20: signal flow coverage.  After buildGraph, signalFlows holds exactly one
\* flow for every pair of an attached instance and one of its connections
\* whose child module type is a node, and none for a connection whose child
\* type is not a node; each flow records the connection's signal name and the
\* path of the parent module and the child module type.
C20_SignalFlowCoverage == built => OneFlowEach(FlowPairs)

\* no element occurs twice in the sequence
Distinct(seq) == \A i, j \in 1..Len(seq) : i # j => seq[i] # seq[j]

\* the modules at either end of a flow of signal sig
FlowModules(sig) ==
    UNION { {graph.signalFlows[i].from.module, graph.signalFlows[i].to.module} :
                i \in {k \in 1..Len(graph.signalFlows) : graph.signalFlows[k].signal = sig} }

\* C21: distinct impact ports.  getSignalImpactAnalysis(S) returns no
\* {module, port} pair twice among its sources nor twice among its sinks, for
\* any graph, and affectedModules is exactly the set of the modules at either
\* end of a flow of signal S.
C21_DistinctImpactPorts ==
    built =>
        \A sig \in AskedSignals :
            LET impact == getSignalImpactAnalysis(graph, sig)
            IN /\ Distinct(impact.sources)
               /\ Distinct(impact.sinks)
               /\ Distinct(impact.affectedModules)
               /\ Range(impact.affectedModules) = FlowModules(sig)

\* the names some module has in its forward edge set
Instantiated == UNION {Range(graph.edges[m]) : m \in DOMAIN graph.edges}

\* instance k is an instance of its own parent module
SelfInstance(k) ==
    /\ findModuleByFile(instances[k].file, modules) # <<>>
    /\ findModuleByFile(instances[k].file, modules)[1].name = instances[k].moduleType

\* C22: top-level and leaf queries.  After buildGraph, getTopLevelModules
\* returns exactly the node names in no module's forward edge set and
\* getLeafModules exactly the node names whose forward edge set is empty;
\* neither returns a name that is not a node, and a module that instantiates
\* only itself is a node and is not reported as top-level.
C22_TopAndLeaf ==
    built =>
        /\ Range(getTopLevelModules(graph)) = NodeNames(graph) \ Instantiated
        /\ Range(getLeafModules(graph))
               = {n \in NodeNames(graph) : EdgeSet(graph.edges, n) = <<>>}
        /\ Distinct(getTopLevelModules(graph)) /\ Distinct(getLeafModules(graph))
        /\ \A k \in 1..Len(instances) : SelfInstance(k) =>
               /\ instances[k].moduleType \in NodeNames(graph)
               /\ instances[k].moduleType \notin Range(getTopLevelModules(graph))

\* a graph of three modules has been built: A instantiates only itself, T is
\* top-level and B is a leaf
C22_Witness ==
    /\ built
    /\ Len(instances) = 1 /\ SelfInstance(1) /\ instances[1].moduleType = "A"
    /\ "T" \in Range(getTopLevelModules(graph))
    /\ "B" \in Range(getLeafModules(graph))
    /\ "A" \notin Range(getLeafModules(graph))

\* the step in which the running query q returns to its caller
FinishStep(q) == walk.pc = "running" /\ walk'.pc = "done" /\ walk'.query = q

\* each module of the path is in the forward edge set of the one before it
AlongEdges(g, path) ==
    \A i \in 1..(Len(path) - 1) : path[i + 1] \in Range(EdgeSet(g.edges, path[i]))

\* C23: findModulePath(from, to) returns a path exactly when to is reached
\* from from along zero or more forward edges, on graphs with and without
\* cycles; a returned path starts with from, ends with to, holds no module
\* twice, and each consecutive pair is a forward edge.
C23_ModulePath ==
    [][ FinishStep("findModulePath") =>
          LET r == walk'.result
          IN /\ r.found <=> Connected(graph, walk.from, walk.to)
             /\ r.found =>
                    /\ r.path # <<>>
                    /\ r.path[1] = walk.from
                    /\ r.path[Len(r.path)] = walk.to
                    /\ Distinct(r.path)
                    /\ AlongEdges(graph, r.path) ]_vars

\* on a graph with the cycle T -> B -> T, findModulePath("T", "A") has
\* returned the path T, B, A
C23_Witness ==
    /\ built /\ Finished("findModulePath")
    /\ walk.result.found /\ walk.result.path = <<"T", "B", "A">>
    /\ "T" \in Range(EdgeSet(graph.edges, "B"))

\* every name of the graph: the nodes and the types instantiated
GraphModules == NodeNames(graph) \cup Instantiated

\* the chains of distinct modules along forward edges
SimplePaths ==
    {p \in SeqsUpTo(GraphModules, Cardinality(GraphModules)) :
        p # <<>> /\ Distinct(p) /\ AlongEdges(graph, p)}

\* the chains from a top-level module to a module without forward edges
RootLeafPaths ==
    {p \in SimplePaths :
        /\ p[1] \in Range(getTopLevelModules(graph))
        /\ EdgeSet(graph.edges, p[Len(p)]) = <<>>}

\* the place of x in the sequence
Pos(seq, x) == CHOOSE i \in 1..Len(seq) : seq[i] = x

\* the traversal from the top-level modules, each visiting its children in
\* the order of its edge set, finds chain p before chain q
FoundBefore(p, q) ==
    LET d == CHOOSE i \in 1..Len(p) :
                 /\ i > Len(q) \/ p[i] # q[i]
                 /\ \A j \in 1..(i - 1) : p[j] = q[j]
        from == IF d = 1 THEN getTopLevelModules(graph)
                ELSE EdgeSet(graph.edges, p[d - 1])
    IN Pos(from, p[d]) < Pos(from, q[d])

\* no module is reached from itself along one or more forward edges
Acyclic ==
    \A m \in GraphModules :
        m \notin ReachedFrom(graph, Range(EdgeSet(graph.edges, m)),
                             Cardinality(GraphModules))

\* C24: getCriticalPath returns a longest instantiation chain.  The result
\* starts at a top-level module, ends at a module without forward edges,
\* follows forward edges and repeats no module; no chain from a top-level
\* module to a leaf is longer; among the longest the first found in traversal
\* order is kept; and on a non-empty acyclic graph the result is not empty.
C24_CriticalPath ==
    [][ FinishStep("getCriticalPath") =>
          LET r == walk'.result.path
          IN /\ r # <<>> => r \in RootLeafPaths
             /\ \A p \in RootLeafPaths :
                    /\ Len(p) <= Len(r)
                    /\ (Len(p) = Len(r) /\ p # r) => FoundBefore(r, p)
             /\ (NodeNames(graph) # {} /\ Acyclic) => r # <<>> ]_vars

\* getCriticalPath has returned a chain of three modules on a graph that has
\* another chain as long
C24_Witness ==
    /\ built /\ Finished("getCriticalPath")
    /\ Len(walk.result.path) = 3
    /\ walk.result.path \in RootLeafPaths
    /\ \E p \in RootLeafPaths : Len(p) = 3 /\ p # walk.result.path

\* the number of modules on the longest chain among the chains of P
LongestOf(P) == CHOOSE n \in {Len(p) : p \in P} : \A q \in P : Len(q) <= n

\* the chains that start at module m
ChainsFrom(m) == {p \in SimplePaths : p[1] = m}

\* C25: hierarchy depth.  For every module M of an acyclic graph,
\* getModuleComplexity(M).hierarchyDepth is the number of modules on the
\* longest forward-edge chain that starts at M, whatever the order of the
\* instances given to buildGraph, diamonds included; when M is the only
\* top-level module it is the length of the critical path.
C25_HierarchyDepth ==
    [][ ( /\ FinishStep("getModuleComplexity")
          /\ walk.from \in NodeNames(graph)
          /\ Acyclic ) =>
          LET depth == walk'.result.metrics.hierarchyDepth
          IN /\ depth = LongestOf(ChainsFrom(walk.from))
             /\ getTopLevelModules(graph) = <<walk.from>> =>
                    depth = LongestOf(RootLeafPaths) ]_vars

\* a step of a read-only query: of a graph walk, or a search that returns
QueryStep ==
    \/ walk' # walk
    \/ search' # search /\ search'.pc = "done"

\* the shared state the queries read
SharedState ==
    <<symbols, nameIndex, pathIndex,
      graph.nodes, graph.edges, graph.reverseEdges, graph.signalFlows>>

\* what the queries that return at once answer in the current state
Answers ==
    [ listSymbols |-> listSymbols(Table),
      getAllFiles |-> getAllFiles(Table),
      findByName |-> [n \in {<<"a">>, <<"a", "b">>, <<"b">>} |-> findByName(Table, n)],
      getSymbolsInFile |-> [p \in {FileA, FileB, FileSubA} |-> getSymbolsInFile(Table, p)],
      getSymbol |-> [id \in SymIds(symbols) \cup {generateSymbolId(FileSubA, <<"b">>, 0)}
                        |-> getSymbol(Table, id)],
      getTopLevelModules |-> getTopLevelModules(graph),
      getLeafModules |-> getLeafModules(graph),
      getSignalImpactAnalysis |->
          [sig \in AskedSignals |-> getSignalImpactAnalysis(graph, sig)] ]

\* the walk a graph query starts with, whatever ran before it
FreshWalk(g, q, from, to) ==
    CASE q = "findModulePath" ->
            [IdleWalk EXCEPT !.pc = "running", !.query = q, !.from = from,
                             !.to = to, !.mode = "call", !.arg = from]
      [] q = "getCriticalPath" ->
            [IdleWalk EXCEPT !.pc = "running", !.query = q,
                             !.roots = getTopLevelModules(g)]
      [] OTHER ->
            [IdleWalk EXCEPT !.pc = "running", !.query = q, !.from = from,
                             !.mode = "call", !.arg = from]

\* a graph query run from w to its return with nothing in between
RECURSIVE RunAlone(_, _)
RunAlone(g, w) ==
    IF w.pc # "running" THEN w
    ELSE RunAlone(g,
           CASE w.query = "findModulePath" ->
                    IF w.mode = "call" THEN findPathCall(g, w) ELSE findPathResume(w)
             [] w.query = "getCriticalPath" ->
                    IF w.mode = "call" THEN criticalCall(g, w) ELSE criticalResume(w)
             [] OTHER ->
                    IF w.mode = "call" THEN depthCall(g, w) ELSE depthResume(g, w))

\* C26: read-only queries do not mutate shared state.  A step of search,
\* of findModulePath, getCriticalPath or getModuleComplexity leaves the
\* symbol map, the name and path indexes and the graph's nodes, edges,
\* reverse edges and signal flows as they were, so the other queries answer
\* after it what they answered before it, and a graph query that returns
\* after other queries ran between its steps returns what it returns when
\* run alone.
C26_QueriesReadOnly ==
    [][ /\ QueryStep => (SharedState' = SharedState /\ Answers' = Answers)
        /\ (walk.pc = "running" /\ walk'.pc = "done") =>
               walk'.result
                   = RunAlone(graph, FreshWalk(graph, walk.query, walk.from, walk.to)).result
      ]_vars

\* a search has returned symbols between the steps of a path query that
\* then found its path on a graph with edges, reverse edges and flows
C26_Witness ==
    /\ built /\ graph.signalFlows # <<>> /\ DOMAIN graph.reverseEdges # {}
    /\ Finished("findModulePath") /\ walk.result.found
    /\ search.pc = "done" /\ search.results # <<>>
    /\ symbols # <<>>

\* what a caller reads from a record, field by field
Reads(obj, fields) == [i \in 1..Len(fields) |-> Field(obj, fields[i])]

\* the records of a map, each under its key
Records(entries, fields) ==
    {<<entries[i][1], Reads(entries[i][2], fields)>> : i \in 1..Len(entries)}

\* the step is a fresh store initialized on a dbPath whose files the last
\* saveData wrote without an error
ReopenSaved == store.saved /\ store'.op = "initialize"

\* C27: persistence round-trip.  Every symbol, module and connection record
\* that was inserted into a store and saved is returned, with every field
\* as it was, by a fresh store initialized on the same location, and the
\* fresh store holds no record that was not saved.
C27_RoundTrip ==
    [][ ReopenSaved =>
          /\ Records(store'.symbols, SymbolFields) = Records(store.symbols, SymbolFields)
          /\ Records(store'.modules, ModuleFields) = Records(store.modules, ModuleFields)
          /\ Records(store'.connections, ConnectionFields)
                 = Records(store.connections, ConnectionFields)
          /\ \A repoPath \in {"r", "q"} :
                 LET old == getModuleHierarchy(store, repoPath)
                     new == getModuleHierarchy(store', repoPath)
                 IN /\ Len(new.modules) = Len(old.modules)
                    /\ Len(new.connections) = Len(old.connections)
                    /\ \A i \in 1..Len(new.modules) :
                           Reads(new.modules[i], ModuleFields)
                               = Reads(old.modules[i], ModuleFields)
                    /\ \A i \in 1..Len(new.connections) :
                           Reads(new.connections[i], ConnectionFields)
                               = Reads(old.connections[i], ConnectionFields)
      ]_vars

\* a fresh store has loaded two symbols (one without a signature), a module
\* and two connections from files written by a save without an error
C27_Witness ==
    /\ store.op = "initialize" /\ store.saved
    /\ Len(store.symbols) = 2 /\ Len(store.modules) = 1 /\ Len(store.connections) = 2
    /\ \E i \in 1..2 : Field(store.symbols[i][2], "signature") = Undefined
    /\ \E i \in 1..2 : Field(store.symbols[i][2], "signature") = "(clk)"
    /\ store.symbols[1][2].startLine = 1

\* (i) every id under a name is the id of a stored symbol of that name
NameIndexSound ==
    \A n \in DOMAIN nameIndex : \A id \in nameIndex[n] :
        id \in SymIds(symbols) /\ SymGet(symbols, id).name = n

\* (ii) every id under a path is the id of a stored symbol of that path
PathIndexSound ==
    \A p \in DOMAIN pathIndex : \A id \in pathIndex[p] :
        id \in SymIds(symbols) /\ SymGet(symbols, id).path = p

\* (iii) every stored symbol is listed under its name and under its path
IndexesComplete ==
    \A i \in 1..Len(symbols) :
        /\ MapHas(nameIndex, symbols[i].name)
        /\ symbols[i].id \in nameIndex[symbols[i].name]
        /\ MapHas(pathIndex, symbols[i].path)
        /\ symbols[i].id \in pathIndex[symbols[i].path]

\* (iv) no index holds an empty set of ids
NoEmptyIdSet ==
    /\ \A n \in DOMAIN nameIndex : nameIndex[n] # {}
    /\ \A p \in DOMAIN pathIndex : pathIndex[p] # {}

\* what follows for the two queries by path
PathQueriesExact ==
    /\ \A p \in DOMAIN pathIndex : \A s \in getSymbolsInFile(Table, p) : s.path = p
    /\ getAllFiles(Table) = {symbols[i].path : i \in 1..Len(symbols)}

\* C28: index consistency.  In every reachable state, after any sequence of
\* buildIndex and updateFile calls, failing ones included, the name index
\* and the path index hold exactly the ids of the stored symbols of that
\* name and that path, and no empty id set; so getSymbolsInFile(p) returns
\* only symbols whose path is p and getAllFiles() is the set of paths of
\* the stored symbols.
C28_IndexConsistency ==
    /\ NameIndexSound
    /\ PathIndexSound
    /\ IndexesComplete
    /\ NoEmptyIdSet
    /\ PathQueriesExact

\* the instances of the design that stand in the file of module name: the
\* first module of the list declared in that file is their parent
AttachedTo(name) ==
    SelectSeq(instances,
              LAMBDA inst :
                  \E i \in 1..Len(modules) :
                      /\ modules[i].filePath = inst.file
                      /\ \A j \in 1..(i - 1) : modules[j].filePath # inst.file
                      /\ modules[i].name = name)

\* the module types of a list of instances
TypesOf(insts) == {insts[i].moduleType : i \in 1..Len(insts)}

\* C29: edges mirror attached instances.  After buildGraph, for every node
\* M the forward edge set of M is the set of the module types of the
\* instances attached to M, one edge per distinct type; so M is a leaf
\* exactly if its instance list is empty, and the instanceCount of
\* getModuleComplexity(M) is 0 exactly for the leaves.
C29_EdgesMirrorInstances ==
    built =>
        \A name \in NodeNames(graph) :
            LET node == NodeGet(graph, name)
                edges == EdgeSet(graph.edges, name)
                leaf == name \in Range(getLeafModules(graph))
            IN /\ node.instances = AttachedTo(name)
               /\ Range(edges) = TypesOf(node.instances)
               /\ Distinct(edges)
               /\ leaf <=> node.instances = <<>>
               /\ Metrics(graph, name, 1).instanceCount = 0 <=> leaf

\* a built graph where a node holds two instances of one type, another
\* module of the same file holds none, and an instantiated module is a leaf
C29_Witness ==
    /\ built
    /\ \E name \in NodeNames(graph) :
          /\ Len(NodeGet(graph, name).instances) = 2
          /\ Len(EdgeSet(graph.edges, name)) = 1
    /\ \E a, b \in NodeNames(graph) :
          /\ a # b /\ NodeGet(graph, a).file = NodeGet(graph, b).file
          /\ NodeGet(graph, b).instances = <<>>
          /\ b \in Range(EdgeSet(graph.edges, a))
          /\ b \in Range(getLeafModules(graph))

\* the direction the child module of the pair declares for the port the
\* connection names
DeclaredDirection(p) ==
    LET ports == NodeGet(graph, instances[p[1]].moduleType).ports
        conn == instances[p[1]].connections[p[2]]
        first == CHOOSE i \in 1..Len(ports) :
                     /\ ports[i].name = conn.portName
                     /\ \A j \in 1..(i - 1) : ports[j].name # conn.portName
    IN ports[first].direction

\* the two ends of the pair's flow: in the parent the call-site signal, in
\* the child the port
ParentEnd(p) ==
    [module |-> findModuleByFile(instances[p[1]].file, modules)[1].name,
     port   |-> instances[p[1]].connections[p[2]].signalName]

ChildEnd(p) ==
    [module |-> instances[p[1]].moduleType,
     port   |-> instances[p[1]].connections[p[2]].portName]

\* C30: flow orientation follows the child module's declared port
\* direction.  The flow of a connection to a port declared input goes from
\* the parent module and call-site signal to the child module and port, the
\* flow of a connection to a port declared output goes the other way, also
\* when the direction carried by the connection differs from the
\* declaration.
C30_FlowOrientation ==
    built =>
        \A p \in {q \in FlowPairs : DeclaresPort(q)} :
            LET inward == DeclaredDirection(p) = "input"
            IN DeclaredDirection(p) \in {"input", "output"} =>
                   \E i \in 1..Len(graph.signalFlows) :
                       /\ FlowRecord(graph.signalFlows[i]) = PairRecord(p)
                       /\ graph.signalFlows[i].from
                              = IF inward THEN ParentEnd(p) ELSE ChildEnd(p)
                       /\ graph.signalFlows[i].to
                              = IF inward THEN ChildEnd(p) ELSE ParentEnd(p)

\* the orientation of the flows of the connections whose direction is the
\* declared one
AgreeingFlowsOriented ==
    built =>
        \A p \in {q \in FlowPairs : DeclaresPort(q)} :
            LET inward == DeclaredDirection(p) = "input"
            IN instances[p[1]].connections[p[2]].direction = DeclaredDirection(p) =>
                   \E i \in 1..Len(graph.signalFlows) :
                       /\ FlowRecord(graph.signalFlows[i]) = PairRecord(p)
                       /\ graph.signalFlows[i].from
                              = IF inward THEN ParentEnd(p) ELSE ChildEnd(p)
                       /\ graph.signalFlows[i].to
                              = IF inward THEN ChildEnd(p) ELSE ParentEnd(p)

\* name N equals, starts with or contains query Q, without regard to case
SubstringMatch(N, Q) == IsInfixOf(ToLowerCase(Q), ToLowerCase(N))

\* name N matches query Q through the edit-distance rule only
FuzzyMatch(N, Q) ==
    /\ ~SubstringMatch(N, Q)
    /\ EditDistance(ToLowerCase(N), ToLowerCase(Q))
           <= Max(1, (3 * Len(N)) \div 10)

\* the symbol results of the search that has ended
SymbolResults == {i \in 1..Len(search.results) : search.results[i].type = "symbol"}

\* C31: fuzzy matches rank below substring matches.  For every query Q and
\* symbol names N1 and N2, if N1 equals, starts with or contains Q and N2
\* matches Q through the edit-distance rule only, the score of N1 is greater
\* than the score of N2 and N1 is before N2 in the list search returns;
\* every symbol result has a score between 1 and 100.
C31_FuzzyBelowSubstring ==
    SymbolSearchDone =>
        LET score == [i \in 1..Len(symbols) |->
                         calculateSymbolScore(symbols[i], search.query)]
            substring == {i \in 1..Len(symbols) :
                             SubstringMatch(symbols[i].name, search.query)}
            fuzzy == {j \in 1..Len(symbols) :
                         FuzzyMatch(symbols[j].name, search.query)}
            Of(ids) == {k \in SymbolResults :
                           \E i \in ids : search.results[k].id = symbols[i].id}
        IN /\ \A i \in substring, j \in fuzzy : score[i] > score[j]
           /\ \A i \in Of(substring), j \in Of(fuzzy) :
                  /\ search.results[i].score > search.results[j].score
                  /\ i < j
           /\ \A i \in substring \cup fuzzy :
                  \E k \in SymbolResults : search.results[k].id = symbols[i].id
           /\ \A k \in SymbolResults : search.results[k].score \in 1..100

\* a search for b has returned the symbol ab, which contains b, before the
\* symbol a, which is one edit away, although a was indexed first
C31_Witness ==
    /\ SymbolSearchDone
    /\ search.query = <<"b">>
    /\ Len(symbols) = 2 /\ symbols[1].name = <<"a">> /\ symbols[2].name = <<"a", "b">>
    /\ Len(search.results) = 2
    /\ search.results[1].name = <<"a", "b">> /\ search.results[1].score = 70
    /\ search.results[2].name = <<"a">> /\ search.results[2].score = 55

\* C32: buildGraph rebuilds wholesale.  The graph after buildGraph(m, i) is
\* the graph a new builder makes of m and i: no node, edge, reverse edge,
\* attached instance or signal flow of an earlier call survives, and a call
\* with the arguments of the call before it leaves an equal graph.
C32_RebuildWholesale ==
    [][ built' =>
          /\ graph' = buildGraph(modules', instances')
          /\ NodeNames(graph') = {modules'[i].name : i \in 1..Len(modules')}
          /\ DOMAIN graph'.edges \subseteq NodeNames(graph')
          /\ \A i \in 1..Len(graph'.nodes) :
                 Len(graph'.nodes[i].instances) <= Len(instances')
          /\ (built /\ modules' = modules /\ instances' = instances) => graph' = graph
      ]_vars

\* the builder holds the graph of two instances of A inside T: both are
\* attached to T, once each, with one edge and one flow for each connection
C32_Witness ==
    /\ built /\ Len(instances) = 2
    /\ "T" \in NodeNames(graph) /\ NodeGet(graph, "T").instances = instances
    /\ EdgeSet(graph.edges, "T") = <<"A">>
    /\ Len(graph.signalFlows) = 2

\* the instances whose file is the declaring file of some module
Placed == {k \in 1..Len(instances) :
              \E i \in 1..Len(modules) : modules[i].filePath = instances[k].file}

\* the first module, in input order, declared in the file of instance k
FirstModuleOf(k) ==
    modules[CHOOSE i \in 1..Len(modules) :
                /\ modules[i].filePath = instances[k].file
                /\ \A j \in 1..(i - 1) : modules[j].filePath # instances[k].file]

\* instance k is attached to the node of that module, and to no other node
AttachedToFirst(k) ==
    /\ FirstModuleOf(k).name \in NodeNames(graph)
    /\ instances[k] \in Range(NodeGet(graph, FirstModuleOf(k).name).instances)
    /\ \A i \in 1..Len(graph.nodes) :
           graph.nodes[i].name # FirstModuleOf(k).name =>
               instances[k] \notin Range(graph.nodes[i].instances)

\* the forward edge of instance k starts at that module
EdgeFromFirst(k) ==
    instances[k].moduleType \in Range(EdgeSet(graph.edges, FirstModuleOf(k).name))

\* the node instance k is attached to is declared in the file of instance k
AttachedInOwnFile(k) ==
    \A i \in 1..Len(graph.nodes) :
        instances[k] \in Range(graph.nodes[i].instances) =>
            graph.nodes[i].file = instances[k].file

\* C33: parent resolution, first match wins.  Every instance whose file is
\* the declaring file of a module is attached to exactly one node, the node
\* of the first module of the input declared in that file, and its forward
\* edge starts at that module, also when a file declares several modules
\* and when two modules of different files share a name: the node the
\* instance is attached to is declared in the instance's file.
C33_FirstMatchWins ==
    built =>
        \A k \in Placed :
            /\ AttachedToFirst(k)
            /\ EdgeFromFirst(k)
            /\ AttachedInOwnFile(k)

(***************************************************************************)
(* Claims about the content argument of updateFile                         *)
(***************************************************************************)
\* the step is updateFile(p, content) with a content argument
SuppliedStep == UpdateStep /\ lastCall'.arg.given

\* the symbols of the call's path after the step are the extraction of the
\* supplied content
SuppliedExtracted ==
    getSymbolsInFile(Table, Resolve(lastCall.path))' =
        Range(Extract(lastCall'.path, lastCall'.arg.text))

\* the call did not go to the disk: it neither threw on a missing file nor
\* indexed the file's text in place of the argument
DiskNotRead ==
    /\ ~lastCall'.threw
    /\ fileContent(disk, lastCall'.path, lastCall'.arg) = lastCall'.arg.text

\* C34: supplied content wins.  After updateFile(p, content) with a content
\* argument the symbols of p are exactly the extraction of that content and
\* the file on disk is not read; with the empty string as content p has no
\* symbols and is absent from getAllFiles().
C34_SuppliedContentWins ==
    [][ SuppliedStep =>
          /\ SuppliedExtracted
          /\ DiskNotRead
          /\ lastCall'.arg.text = <<>> =>
                 Resolve(lastCall'.path) \notin getAllFiles(Table)' ]_vars

\* the same for contents that are not the empty string, on a path given in
\* resolved form whose ids no other file shares
NonEmptyContentWins ==
    [][ ( /\ SuppliedStep
          /\ lastCall'.arg.text # <<>>
          /\ lastCall'.path = Resolve(lastCall'.path)
          /\ \A s \in Range(symbols) : s.path = lastCall'.path )
        => (SuppliedExtracted /\ DiskNotRead) ]_vars

(***************************************************************************)
(* Claims about the server's responses                                     *)
(***************************************************************************)
\* handleRequest has returned for the request at hand
HandlerReturned == http.pc = "returned"

\* the response was ended exactly once, with a status written
EndedOnce == http.res.ended = 1 /\ http.res.statusCode # 0

\* C35: every HTTP request is answered.  For every request passed to
\* handleRequest, whatever its method and path, the response is eventually
\* ended exactly once with a status written; a path that matches no route
\* ends with a 404 JSON body.
C35_EveryRequestAnswered ==
    /\ [](HandlerReturned => EndedOnce)
    /\ [](http.pc = "awaiting" => <>HandlerReturned)
    /\ []((HandlerReturned /\ http.route = "none" /\ http.method # "OPTIONS") =>
             (http.res.statusCode = 404 /\ http.res.body = "json"))

\* the same for the requests that match a route
RoutedRequestsAnswered ==
    /\ []((HandlerReturned /\ (http.route # "none" \/ http.method = "OPTIONS")) => EndedOnce)
    /\ [](http.pc = "awaiting" => <>HandlerReturned)
(***************************************************************************)
(* Claims about instances in files that declare no module                  *)
(***************************************************************************)
\* the files in which some module of the design is declared
DeclaringFiles == {modules[i].filePath : i \in 1..Len(modules)}

Matched(inst) == inst.file \in DeclaringFiles

Unmatched == {i \in 1..Len(instances) : ~Matched(instances[i])}

\* the instances some node holds
AttachedInstances ==
    UNION {Range(NodeGet(graph, name).instances) : name \in NodeNames(graph)}

\* C36: an instance whose source file matches no module's declaring file
\* contributes nothing to the graph.  It is attached to no node, and the
\* graph buildGraph returns (nodes, forward and reverse edges, signal flows)
\* is the one it returns for the remaining instances alone.
C36_UnmatchedContributesNothing ==
    built =>
        /\ \A i \in Unmatched : instances[i] \notin AttachedInstances
        /\ graph = buildGraph(modules, SelectSeq(instances, Matched))

\* buildGraph has run on an instance that matches no file, followed by one
\* that is attached and adds an edge and a signal flow
C36_Witness ==
    /\ built
    /\ Len(instances) = 2
    /\ ~Matched(instances[1])
    /\ instances[2] \in AttachedInstances
    /\ graph.edges # EmptyMap
    /\ graph.signalFlows # <<>>
(***************************************************************************)
(* Claims about the cache's eviction                                       *)
(***************************************************************************)
\* the step is a set that evicted a key
EvictingStep == cache'.evicted # Undefined

\* C37: cache eviction is least-recently-used.  When set of a new key on a
\* full cache evicts an entry, the evicted key is the one whose last access
\* (a get hit, or a set that inserted or overwrote it) is oldest; so a key
\* just overwritten by set is not the next one evicted while an older
\* untouched key remains.
C37_EvictsLeastRecentlyUsed ==
    [][ EvictingStep => cache'.evicted = Head(cache.used) ]_vars

\* what holds instead: the evicted key is the first in the Map's insertion
\* order, which a get hit renews and an overwriting set does not
EvictsFirstInMap ==
    [][ EvictingStep => cache'.evicted = mapKeys(cache.lru.cache)[1] ]_vars
(***************************************************************************)
(* Claims about cleanupRepo                                                *)
(***************************************************************************)
\* the repository the store's cleanupRepo calls name, and another one
CleanedRepo == "r"

OtherRepo == "q"

\* the step is cleanupRepo(CleanedRepo)
CleanupStep == store'.op = "cleanupRepo"

NoStats == [symbolCount |-> 0, moduleCount |-> 0, connectionCount |-> 0,
            fileCount |-> 0]

EmptyHierarchy == [modules |-> <<>>, connections |-> <<>>]

\* the records of a repository, and the files under it
RepoData(s, repoPath) ==
    [symbols |-> ofRepo(s.symbols, repoPath),
     hierarchy |-> getModuleHierarchy(s, repoPath),
     files |-> SelectSeq(s.fileMetadata,
                   LAMBDA e : StartsWith(Characters(e[1]), Characters(repoPath)))]

\* C38: after cleanupRepo(r) no data for repository r remains.  getStats(r)
\* reports symbolCount, moduleCount, connectionCount and fileCount all 0,
\* getModuleHierarchy(r) is empty, and records of other repositories are
\* unchanged.
C38_CleanupLeavesNothing ==
    [][ CleanupStep =>
          /\ getStats(store, CleanedRepo)' = NoStats
          /\ getModuleHierarchy(store, CleanedRepo)' = EmptyHierarchy
          /\ RepoData(store, OtherRepo)' = RepoData(store, OtherRepo) ]_vars

\* the same without the count of files
RecordsCleaned ==
    [][ CleanupStep =>
          /\ [getStats(store, CleanedRepo)' EXCEPT !.fileCount = 0] = NoStats
          /\ getModuleHierarchy(store, CleanedRepo)' = EmptyHierarchy
          /\ RepoData(store, OtherRepo)' = RepoData(store, OtherRepo) ]_vars
(***************************************************************************)
(* Claims about the cache's size                                           *)
(***************************************************************************)
KeySet(entries) == {entries[i][1] : i \in 1..Len(entries)}

\* C39: cache capacity bound.  After any sequence of set, get, delete and
\* clear on a cache with item limit M >= 1, the number of stored entries
\* never exceeds M, and the key set of the value map always equals the key
\* set of the timestamp map.
C39_CapacityBound ==
    /\ Len(cache.lru.cache) <= cache.lru.maxSize
    /\ Cardinality(KeySet(cache.lru.cache)) = Len(cache.lru.cache)
    /\ KeySet(cache.lru.cache) = KeySet(cache.lru.timestamps)
    /\ Len(cache.lru.timestamps) = Len(cache.lru.cache)

\* a set on a full cache of two items has evicted a key, after two gets
\* that missed and some time on the clock
C39_Witness ==
    /\ cache.lru.maxSize = 2
    /\ Len(cache.lru.cache) = 2
    /\ cache.evicted # Undefined
    /\ cache.missCount = 2
    /\ cache.now > 1
====
